---- MODULE Spec2Model ----
(***************************************************************************)
(* A model of the agent gateway: the in-memory agent mailbox (AgentBus),   *)
(* the POST /v1/responses handler with its guards and its synthesized      *)
(* event stream, and the OpenAI passthrough stream.                        *)
(*                                                                         *)
(* Python strings are modelled as sequences of one-character strings, so   *)
(* that concatenation, splitting and length are computed, not assumed.     *)
(***************************************************************************)
EXTENDS Integers, Sequences, FiniteSets, TLC

\* ------------------------------------------------------------------ bounds

\* Largest max_messages an AgentBus is constructed with in the model.
MaxDepth == 1
\* Total number of envelopes published in one behaviour.
MaxPublish == 2
\* Largest upstream chunk, in bytes, and the number of chunks upstream sends.
MaxChunkLen == 2
MaxChunks == 2
\* Largest byte budget (max_bytes_out) a stream is opened with in the model.
MaxBudget == 2
\* Largest number of input messages in a request.
MaxMessages == 2
\* Largest value MAX_INPUT_TOKENS is set to (the texts of the model are short).
MaxTokenCeiling == 2

\* ----------------------------------------------------------------- mailbox

VARIABLES
    queues,        \* AgentBus._queues: key -> deque, keys created lazily
    max_messages,  \* AgentBus._max_messages
    calls,         \* in-flight /v1/agents requests, one slot per client
    published,     \* number of envelopes created so far (object identity)
    evicted,       \* ghost: uids dropped by the depth bound
    delivered,     \* ghost: uid -> number of consume results that held it
    hist           \* ghost: key -> envelopes published since the key's last consume

busVars == <<queues, max_messages, calls, published, evicted, delivered, hist>>

\* ------------------------------------------------------- passthrough state

VARIABLES
    stream         \* one _stream_openai call: OpenAIProvider.stream, its iterator()
                   \* generator, the passthrough() generator and the upstream response

\* ----------------------------------------------------------- request state

VARIABLES
    settings,          \* gateway._settings: default_provider and the api keys set
    MAX_INPUT_TOKENS,  \* routes.MAX_INPUT_TOKENS, a module attribute (tests patch it)
    req                \* one POST /v1/responses request: create_response's position,
                       \* its locals and what the client has been sent

reqVars == <<settings, MAX_INPUT_TOKENS, req>>

\* --------------------------------------------------------- component state

VARIABLES
    registry,          \* ProviderRegistry._providers: lower-cased name -> adapter
    eval               \* one evaluation of a function of the gateway on its own:
                       \* the function, its arguments, its result

unitVars == <<registry, eval>>

nonBusVars == <<stream, reqVars, unitVars>>

vars == <<busVars, nonBusVars>>

\* ------------------------------------------------------------------ names

\* A Python str is the sequence of its characters. NoneStr stands for None
\* where a str is expected (it is no sequence of characters).
NoneStr == <<"None">>

\* the name attribute of the four adapter classes
EchoName == <<"e", "c", "h", "o">>
OpenAIName == <<"o", "p", "e", "n", "a", "i">>
GeminiName == <<"g", "e", "m", "i", "n", "i">>
ClaudeName == <<"c", "l", "a", "u", "d", "e">>

\* str.lower(), on the letters the model's names are written with
LowerChar(ch) ==
    CASE ch = "A" -> "a"
      [] ch = "B" -> "b"
      [] ch = "E" -> "e"
      [] ch = "I" -> "i"
      [] ch = "O" -> "o"
      [] OTHER -> ch
Lower(str) == [i \in 1..Len(str) |-> LowerChar(str[i])]

\* the ids of the adapters GatewayService._build_registry registers, their
\* name attributes, and the ones that call an upstream API with a key
Adapters == {"echo", "openai", "gemini", "claude"}
NetworkAdapters == {"openai", "gemini", "claude"}
AdapterName(adapter) ==
    CASE adapter = "echo" -> EchoName
      [] adapter = "openai" -> OpenAIName
      [] adapter = "gemini" -> GeminiName
      [] adapter = "claude" -> ClaudeName

\* ProviderRegistry.__init__: self._providers = {}
EmptyRegistry == <<>>

\* a register that keeps the entry a name already has
RegisterKeepsFirst(providers, name, provider) ==
    IF Lower(name) \in DOMAIN providers THEN providers
    ELSE [key \in DOMAIN providers \cup {Lower(name)} |->
             IF key = Lower(name) THEN provider ELSE providers[key]]

\* ProviderRegistry.register of a provider whose name attribute is name:
\* self._providers[provider.name.lower()] = provider
register(providers, name, provider) ==
    [key \in DOMAIN providers \cup {Lower(name)} |->
        IF key = Lower(name) THEN provider ELSE providers[key]]

\* a lookup that does not fold the case of the name
GetCaseSensitive(providers, name) ==
    IF name \in DOMAIN providers THEN providers[name] ELSE "none"

\* ProviderRegistry.get: self._providers.get(name.lower()); "none" stands for None
get(providers, name) ==
    IF Lower(name) \in DOMAIN providers THEN providers[Lower(name)] ELSE "none"

\* GatewayService._build_registry: the dict after the four register calls
_providers ==
    register(register(register(register(EmptyRegistry,
        AdapterName("echo"), "echo"),
        AdapterName("openai"), "openai"),
        AdapterName("gemini"), "gemini"),
        AdapterName("claude"), "claude")

\* self.providers.get(provider_name) on the gateway's registry
RegistryGet(name) == get(registry, name)

\* Clients that may each have one mailbox request in flight.
Clients == {"c1", "c2"}

\* Identifier strings; AgentEnvelope and the route take any str.
AgentIds == {<<"a">>, <<"a", ":", "b">>}
ConversationIds == {<<"c">>, <<"b", ":", "c">>}
SenderIds == {<<"s">>}

\* AgentBus._queue_key: f"{agent_id}:{conversation_id}"
_queue_key(agent_id, conversation_id) == agent_id \o <<":">> \o conversation_id

AllKeys == {_queue_key(a, c) : a \in AgentIds, c \in ConversationIds}

\* models.AgentEnvelope; uid stands for the identity of the Python object.
Envelope(uid, sender, recipient, conversation) ==
    [uid |-> uid,
     sender_agent_id |-> sender,
     recipient_agent_id |-> recipient,
     conversation_id |-> conversation,
     payload |-> "msg"]

\* defaultdict read without insertion: dict.get(key), None as the empty deque
QueueGet(qs, key) == IF key \in DOMAIN qs THEN qs[key] ELSE <<>>

\* A publish whose eviction drops the newest envelope instead of the oldest.
RECURSIVE EvictNewest(_, _)
EvictNewest(queue, n) ==
    IF Len(queue) > n THEN EvictNewest(SubSeq(queue, 1, Len(queue) - 1), n) ELSE queue

\* while len(queue) > self._max_messages: queue.popleft()
RECURSIVE EvictLoop(_, _)
EvictLoop(queue, n) ==
    IF Len(queue) > n THEN EvictLoop(Tail(queue), n) ELSE queue

\* A publish that appends and never evicts.
PublishedQueueUnbounded(queue, envelope, n) == Append(queue, envelope)

\* AgentBus.publish: the deque of the envelope's key after the call
PublishedQueue(queue, envelope, n) == EvictLoop(Append(queue, envelope), n)

\* AgentBus.publish: self._queues after the call (the key is created on access)
publish(qs, envelope, n) ==
    LET key == _queue_key(envelope.recipient_agent_id, envelope.conversation_id)
    IN  [k \in DOMAIN qs \cup {key} |->
            IF k = key THEN PublishedQueue(QueueGet(qs, key), envelope, n)
            ELSE qs[k]]

\* AgentBus.consume: the returned list
ConsumeItems(qs, agent_id, conversation_id) ==
    QueueGet(qs, _queue_key(agent_id, conversation_id))

\* A consume that forgets to clear the deque.
ClearedQueueKept(queue) == queue

\* queue.clear()
ClearedQueue(queue) == <<>>

\* A consume that reads self._queues[key]: the defaultdict creates the key.
ConsumeCreatesKey(qs, agent_id, conversation_id) ==
    LET key == _queue_key(agent_id, conversation_id)
    IN  [k \in DOMAIN qs \cup {key} |-> IF k = key THEN <<>> ELSE qs[k]]

\* AgentBus.consume: self._queues after the call (dict.get creates no key)
consume(qs, agent_id, conversation_id) ==
    LET key == _queue_key(agent_id, conversation_id)
    IN  IF key \in DOMAIN qs /\ qs[key] # <<>>
        THEN [qs EXCEPT ![key] = ClearedQueue(qs[key])]
        ELSE qs

Idle == [pc |-> "idle"]

Range(s) == {s[i] : i \in 1..Len(s)}

\* AgentBus.__init__(max_messages=100), as GatewayService constructs it
DefaultMaxMessages == 100

\* a mailbox nobody has used yet
BusEmpty ==
    /\ queues = <<>>
    /\ calls = [c \in Clients |-> Idle]
    /\ published = 0
    /\ evicted = {}
    /\ delivered = [u \in 1..MaxPublish |-> 0]
    /\ hist = [k \in AllKeys |-> <<>>]

\* no _stream_openai call in progress
NoStream == [pc |-> "none"]

\* no POST /v1/responses request is being served
NoRequest == [pc |-> "none"]

\* settings.Settings() with its defaults: DEFAULT_PROVIDER echo, no api key set
DefaultSettings == [default_provider |-> EchoName, keys |-> {}]

\* routes.MAX_INPUT_TOKENS as the module defines it
DefaultMaxInputTokens == 6000

\* the gateway as create_app leaves it when no response request is in flight
ResponsesIdle ==
    /\ settings = DefaultSettings
    /\ MAX_INPUT_TOKENS = DefaultMaxInputTokens
    /\ req = NoRequest

\* no function is being evaluated on its own
NoEval == [fn |-> "none"]

\* the registry as GatewayService.__init__ builds it, nothing under evaluation
UnitIdle ==
    /\ registry = _providers
    /\ eval = NoEval

\* AgentBus(max_messages=n) for the depths the model covers
InitBus ==
    /\ BusEmpty
    /\ max_messages \in 0..MaxDepth
    /\ stream = NoStream
    /\ ResponsesIdle
    /\ UnitIdle

\* POST /v1/agents/messages arrives and its body is parsed into an AgentEnvelope
PublishRequest(c) ==
    /\ calls[c].pc = "idle"
    /\ published < MaxPublish
    /\ \E s \in SenderIds, r \in AgentIds, v \in ConversationIds :
          calls' = [calls EXCEPT ![c] =
                       [pc |-> "pending", op |-> "publish",
                        envelope |-> Envelope(published + 1, s, r, v)]]
    /\ published' = published + 1
    /\ UNCHANGED <<queues, max_messages, evicted, delivered, hist, nonBusVars>>

\* routes.publish_agent_message: the handler body, which has no await in it
PublishHandler(c) ==
    /\ calls[c].pc = "pending"
    /\ calls[c].op = "publish"
    /\ LET e == calls[c].envelope
           key == _queue_key(e.recipient_agent_id, e.conversation_id)
           before == Append(QueueGet(queues, key), e)
       IN  /\ queues' = publish(queues, e, max_messages)
           /\ evicted' = evicted \cup
                 {x.uid : x \in Range(before) \ Range(queues'[key])}
           /\ hist' = [hist EXCEPT ![key] = Append(@, e)]
    /\ calls' = [calls EXCEPT ![c] =
                    [pc |-> "done", op |-> "publish", envelope |-> calls[c].envelope,
                     result |-> "queued"]]
    /\ UNCHANGED <<max_messages, published, delivered, nonBusVars>>

\* GET /v1/agents/{agent_id}/messages?conversation_id=... arrives
DrainRequest(c) ==
    /\ calls[c].pc = "idle"
    /\ \E a \in AgentIds, v \in ConversationIds :
          calls' = [calls EXCEPT ![c] =
                       [pc |-> "pending", op |-> "consume",
                        agent_id |-> a, conversation_id |-> v]]
    /\ UNCHANGED <<queues, max_messages, published, evicted, delivered, hist, nonBusVars>>

\* routes.drain_agent_messages: the handler body, which has no await in it
DrainHandler(c) ==
    /\ calls[c].pc = "pending"
    /\ calls[c].op = "consume"
    /\ LET a == calls[c].agent_id
           v == calls[c].conversation_id
           items == ConsumeItems(queues, a, v)
       IN  /\ queues' = consume(queues, a, v)
           /\ calls' = [calls EXCEPT ![c] =
                           [pc |-> "done", op |-> "consume",
                            agent_id |-> a, conversation_id |-> v,
                            result |-> items]]
           /\ delivered' = [u \in 1..MaxPublish |->
                               IF \E i \in 1..Len(items) : items[i].uid = u
                               THEN delivered[u] + 1 ELSE delivered[u]]
           /\ hist' = [hist EXCEPT ![_queue_key(a, v)] = <<>>]
    /\ UNCHANGED <<max_messages, published, evicted, nonBusVars>>

\* the response is written to the client and the request is over
Respond(c) ==
    /\ calls[c].pc = "done"
    /\ calls' = [calls EXCEPT ![c] = Idle]
    /\ UNCHANGED <<queues, max_messages, published, evicted, delivered, hist, nonBusVars>>

NextBus ==
    \E c \in Clients :
        \/ PublishRequest(c)
        \/ PublishHandler(c)
        \/ DrainRequest(c)
        \/ DrainHandler(c)
        \/ Respond(c)

SpecBus == InitBus /\ [][NextBus]_vars

\* ---------------------------------------------------------- mailbox claims

PublishStep(c) ==
    calls[c].pc = "pending" /\ calls[c].op = "publish" /\ calls'[c].pc = "done"

ConsumeStep(c) ==
    calls[c].pc = "pending" /\ calls[c].op = "consume" /\ calls'[c].pc = "done"

ConsumeDone(c) == calls[c].pc = "done" /\ calls[c].op = "consume"

\* the last n elements of s
LastN(s, n) == SubSeq(s, Len(s) - n + 1, Len(s))

Min(a, b) == IF a < b THEN a ELSE b

\* what a consume step of client c returns and leaves, whatever the depth
ConsumeDrains(c) ==
    LET key == _queue_key(calls[c].agent_id, calls[c].conversation_id)
        result == calls'[c].result
    IN  /\ result = QueueGet(queues, key)
        /\ result = LastN(hist[key], Len(result))
        /\ QueueGet(queues', key) = <<>>
        /\ hist[key] = <<>> => result = <<>>

C4_PairsIndependent ==
    [][\A c \in Clients :
          /\ ConsumeStep(c) =>
                \A i \in 1..Len(calls'[c].result) :
                    /\ calls'[c].result[i].recipient_agent_id = calls[c].agent_id
                    /\ calls'[c].result[i].conversation_id = calls[c].conversation_id
          /\ ConsumeStep(c) =>
                \A a \in AgentIds, v \in ConversationIds :
                    <<a, v>> # <<calls[c].agent_id, calls[c].conversation_id>>
                        => QueueGet(queues', _queue_key(a, v))
                             = QueueGet(queues, _queue_key(a, v))
          /\ PublishStep(c) =>
                \A a \in AgentIds, v \in ConversationIds :
                    <<a, v>> # <<calls[c].envelope.recipient_agent_id,
                                 calls[c].envelope.conversation_id>>
                        => QueueGet(queues', _queue_key(a, v))
                             = QueueGet(queues, _queue_key(a, v))]_vars

\* the publish of envelope u has run (its request is no longer pending)
Handled(u) ==
    /\ u <= published
    /\ ~ \E c \in Clients :
            calls[c].pc = "pending" /\ calls[c].op = "publish" /\ calls[c].envelope.uid = u

\* number of queue positions that hold envelope u
Queued(u) ==
    Cardinality({ki \in UNION {{<<k, i>> : i \in 1..Len(queues[k])} : k \in DOMAIN queues} :
                    queues[ki[1]][ki[2]].uid = u})

\* C5: with requests in flight concurrently, no consume returns more than the
\* depth bound (it never sees a queue between append and eviction), and every
\* published envelope is in exactly one place: evicted, returned by exactly one
\* consume, or still queued once.
C5_Linearizable ==
    /\ \A c \in Clients : ConsumeDone(c) => Len(calls[c].result) <= max_messages
    /\ \A u \in 1..MaxPublish :
          /\ delivered[u] <= 1
          /\ Handled(u) =>
                Queued(u) + delivered[u] + (IF u \in evicted THEN 1 ELSE 0) = 1
          /\ ~ Handled(u) => Queued(u) + delivered[u] = 0 /\ u \notin evicted

\* a consume has returned an envelope while a publish to the same key is in
\* flight
C5_Witness ==
    \E c, d \in Clients :
        /\ ConsumeDone(c)
        /\ calls[c].result # <<>>
        /\ calls[d].pc = "pending" /\ calls[d].op = "publish"
        /\ _queue_key(calls[d].envelope.recipient_agent_id, calls[d].envelope.conversation_id)
             = _queue_key(calls[c].agent_id, calls[c].conversation_id)

\* ------------------------------------------------------------- exceptions

\* Python's None, for an absent header or an unset field
None == "None"

\* base.ProviderError(message, status_code=None, provider_request_id=None);
\* status_code 0 stands for None (the code only tests it for truth and equality)
ProviderError(status_code, provider_request_id) ==
    [type |-> "ProviderError", status_code |-> status_code,
     provider_request_id |-> provider_request_id]

\* base.ProviderNotConfiguredError
ProviderNotConfiguredError ==
    [type |-> "ProviderNotConfiguredError", status_code |-> 0,
     provider_request_id |-> None]

\* an exception of the HTTP transport (httpx.RequestError and its subclasses;
\* timeout tells httpx.TimeoutException from the rest)
TransportError(timeout) ==
    [type |-> IF timeout THEN "httpx.TimeoutException" ELSE "httpx.RequestError",
     status_code |-> 0, provider_request_id |-> None]

\* asyncio.CancelledError, thrown into the task that serves a gone client
CancelledError ==
    [type |-> "CancelledError", status_code |-> 0, provider_request_id |-> None]

NoError == [type |-> "none", status_code |-> 0, provider_request_id |-> None]

\* fastapi.HTTPException(status_code, detail={"error": {...}}) as the routes raise it
HTTPException(status_code, code, provider, upstream_status, provider_request_id) ==
    [status_code |-> status_code, code |-> code, provider |-> provider,
     upstream_status |-> upstream_status, provider_request_id |-> provider_request_id]

\* no HTTPException has been raised
NoHTTPException == HTTPException(0, "none", NoneStr, 0, None)

\* a mapping without the branch for status 429
MapExceptionNoRateLimit(exc, provider) ==
    IF exc.type = "ProviderNotConfiguredError"
    THEN HTTPException(424, "provider_not_configured", provider, 0, None)
    ELSE IF exc.type = "ProviderError"
    THEN LET code == IF exc.status_code \in {401, 403} THEN "upstream_auth_error"
                     ELSE IF exc.status_code # 0 /\ exc.status_code >= 500
                          THEN "upstream_unavailable"
                     ELSE "provider_error"
         IN  HTTPException(502, code, provider, exc.status_code,
                           exc.provider_request_id)
    ELSE HTTPException(500, "internal_error", provider, 0, None)

\* errors.map_exception
map_exception(exc, provider) ==
    IF exc.type = "ProviderNotConfiguredError"
    THEN HTTPException(424, "provider_not_configured", provider, 0, None)
    ELSE IF exc.type = "ProviderError"
    THEN LET code == IF exc.status_code \in {401, 403} THEN "upstream_auth_error"
                     ELSE IF exc.status_code = 429 THEN "upstream_rate_limited"
                     ELSE IF exc.status_code # 0 /\ exc.status_code >= 500
                          THEN "upstream_unavailable"
                     ELSE "provider_error"
             http_status == IF exc.status_code \notin {401, 403} /\ exc.status_code = 429
                            THEN 429 ELSE 502
         IN  HTTPException(http_status, code, provider, exc.status_code,
                           exc.provider_request_id)
    ELSE HTTPException(500, "internal_error", provider, 0, None)

\* ------------------------------------------------------ passthrough stream

\* bytes of the upstream body
Bytes == {"x", "y"}

\* what response.aiter_raw may yield: byte strings of 0..MaxChunkLen bytes
Chunks == UNION {[1..n -> Bytes] : n \in 0..MaxChunkLen}

\* status codes of the upstream reply
UpstreamStatuses == {200, 400, 401, 403, 429, 500, 503}

\* values of the upstream x-request-id header (None: header absent)
RequestIdHeaders == {None, "req_stream"}

RECURSIVE TotalBytes(_)
\* sum(len(chunk) for chunk in chunks)
TotalBytes(chunks) ==
    IF chunks = <<>> THEN 0 ELSE Len(Head(chunks)) + TotalBytes(Tail(chunks))

\* the non-empty chunks of a sequence, in order
NonEmpty(chunks) == SelectSeq(chunks, LAMBDA ch : ch # <<>>)

\* a budget test that also trips on a total equal to the budget
BudgetExceededAtLimit(bytes_out, max_bytes_out) ==
    max_bytes_out # 0 /\ bytes_out >= max_bytes_out

\* iterator(): if max_bytes_out and bytes_out > max_bytes_out
\* (max_bytes_out 0 stands for None as well: both are false)
BudgetExceeded(bytes_out, max_bytes_out) ==
    max_bytes_out # 0 /\ bytes_out > max_bytes_out

\* an iterator() whose finally clause is missing
IteratorFinallyMissing(s) == s

\* iterator(): finally: await response.aclose()
IteratorFinally(s) ==
    [s EXCEPT !.upstream = "closed", !.aclose_calls = @ + 1]

\* _stream_openai entered with a chat request for the OpenAI adapter
StreamCall(api_key, max_bytes_out) ==
    [pc |-> "call",
     api_key |-> api_key,               \* settings.openai_api_key is set
     max_bytes_out |-> max_bytes_out,   \* the budget handed to provider.stream
     upstream |-> "none",               \* the httpx response: none, open, closed
     requests |-> 0,                    \* calls of self._client.stream(...)
     aclose_calls |-> 0,                \* calls of response.aclose() by the adapter
     status |-> 0,                      \* response.status_code
     provider_request_id |-> None,      \* response.headers.get("x-request-id")
     started |-> FALSE,                 \* iterator() has been entered
     bytes_out |-> 0,                   \* iterator()'s running total
     received |-> <<>>,                 \* chunks read from response.aiter_raw
     emitted |-> <<>>,                  \* chunks passthrough() yielded to the client
     disconnected |-> FALSE,            \* the client has gone
     outcome |-> "none",                \* rejected, complete, failed, cancelled
     http_error |-> NoHTTPException,    \* the HTTPException raised before streaming
     error |-> NoError]                 \* the exception that ended the stream

InitStream ==
    /\ BusEmpty
    /\ max_messages = DefaultMaxMessages
    /\ \E k \in BOOLEAN, b \in 0..MaxBudget : stream = StreamCall(k, b)
    /\ ResponsesIdle
    /\ UnitIdle

\* OpenAIProvider.stream: if not api_key: raise ProviderNotConfiguredError;
\* _stream_openai maps it
StreamNotConfigured ==
    /\ stream.pc = "call"
    /\ ~ stream.api_key
    /\ stream' = [stream EXCEPT !.pc = "finished", !.outcome = "rejected",
                     !.http_error = map_exception(ProviderNotConfiguredError, OpenAIName)]
    /\ UNCHANGED <<busVars, reqVars, unitVars>>

\* await self._client.stream(...) raises: no response is obtained
StreamTransportError ==
    /\ stream.pc = "call"
    /\ stream.api_key
    /\ \E t \in BOOLEAN :
          stream' = [stream EXCEPT !.pc = "finished", !.outcome = "rejected",
                        !.requests = @ + 1,
                        !.http_error = map_exception(TransportError(t), OpenAIName)]
    /\ UNCHANGED <<busVars, reqVars, unitVars>>

\* await self._client.stream(...) returns the upstream response (headers read)
StreamResponse ==
    /\ stream.pc = "call"
    /\ stream.api_key
    /\ \E status \in UpstreamStatuses, rid \in RequestIdHeaders :
          stream' = [stream EXCEPT
                        !.pc = IF status >= 400 THEN "error_body" ELSE "responding",
                        !.upstream = "open",
                        !.requests = @ + 1,
                        !.status = status,
                        !.provider_request_id = rid]
    /\ UNCHANGED <<busVars, reqVars, unitVars>>

\* status >= 400: body = await response.aread(); await response.aclose();
\* raise ProviderError(...), which _stream_openai maps
ErrorBodyRead ==
    /\ stream.pc = "error_body"
    /\ stream' = [stream EXCEPT
                     !.pc = "finished", !.outcome = "rejected",
                     !.upstream = "closed", !.aclose_calls = @ + 1,
                     !.http_error = map_exception(
                         ProviderError(stream.status, stream.provider_request_id), OpenAIName)]
    /\ UNCHANGED <<busVars, reqVars, unitVars>>

\* status >= 400 and await response.aread() raises: the aclose() after it is
\* skipped and the transport error is what _stream_openai maps
ErrorBodyReadFails ==
    /\ stream.pc = "error_body"
    /\ \E t \in BOOLEAN :
          stream' = [stream EXCEPT
                        !.pc = "finished", !.outcome = "rejected",
                        !.http_error = map_exception(TransportError(t), OpenAIName)]
    /\ UNCHANGED <<busVars, reqVars, unitVars>>

\* the server asks passthrough() for its next chunk: passthrough() asks
\* iterator(), which awaits response.aiter_raw
ConsumerNext ==
    /\ stream.pc \in {"responding", "yielded"}
    /\ stream' = [stream EXCEPT !.pc = "reading", !.started = TRUE]
    /\ UNCHANGED <<busVars, reqVars, unitVars>>

\* generators that pass empty chunks on and swallow the first non-empty one
OnChunkUnfiltered(s, chunk) ==
    LET got == [s EXCEPT !.received = Append(@, chunk)]
    IN  IF chunk # <<>> /\ NonEmpty(s.received) = <<>>
        THEN [got EXCEPT !.bytes_out = @ + Len(chunk), !.pc = "yielded"]
        ELSE [got EXCEPT !.bytes_out = @ + Len(chunk),
                         !.emitted = Append(@, chunk),
                         !.pc = "yielded"]

\* iterator() and passthrough() after response.aiter_raw yields chunk
OnChunk(s, chunk) ==
    LET got == [s EXCEPT !.received = Append(@, chunk)]
        total == s.bytes_out + Len(chunk)
    IN  IF chunk = <<>>
        THEN got                                   \* if not chunk: continue
        ELSE IF BudgetExceeded(total, s.max_bytes_out)
        THEN IteratorFinally(
                 [got EXCEPT !.bytes_out = total,
                             !.pc = "finished", !.outcome = "failed",
                             !.error = ProviderError(502, s.provider_request_id)])
        ELSE [got EXCEPT !.bytes_out = total,      \* yield chunk, twice
                         !.emitted = Append(@, chunk),
                         !.pc = "yielded"]

\* the upstream sends a chunk
UpstreamChunk ==
    /\ stream.pc = "reading"
    /\ Len(stream.received) < MaxChunks
    /\ \E chunk \in Chunks : stream' = OnChunk(stream, chunk)
    /\ UNCHANGED <<busVars, reqVars, unitVars>>

\* the upstream body ends: both generators run to their end
UpstreamEnd ==
    /\ stream.pc = "reading"
    /\ stream' = IteratorFinally(
                     [stream EXCEPT !.pc = "finished", !.outcome = "complete"])
    /\ UNCHANGED <<busVars, reqVars, unitVars>>

\* response.aiter_raw raises while iterator() awaits it
UpstreamError ==
    /\ stream.pc = "reading"
    /\ \E t \in BOOLEAN :
          stream' = IteratorFinally(
                        [stream EXCEPT !.pc = "finished", !.outcome = "failed",
                                       !.error = TransportError(t)])
    /\ UNCHANGED <<busVars, reqVars, unitVars>>

\* the client goes away while the task awaits the upstream read: the
\* cancellation is raised inside iterator(), whose finally clause runs
DisconnectWhileReading ==
    /\ stream.pc = "reading"
    /\ stream' = IteratorFinally(
                     [stream EXCEPT !.pc = "finished", !.outcome = "cancelled",
                                    !.disconnected = TRUE,
                                    !.error = CancelledError])
    /\ UNCHANGED <<busVars, reqVars, unitVars>>

\* the client goes away while the server is writing to it (the headers, or a
\* chunk): the generators are left where they are, unstarted or at their yield
DisconnectWhileSending ==
    /\ stream.pc \in {"responding", "yielded"}
    /\ stream' = [stream EXCEPT !.pc = "abandoned", !.disconnected = TRUE]
    /\ UNCHANGED <<busVars, reqVars, unitVars>>

\* the abandoned generators are finalized (the event loop's asyncgen hook
\* calls aclose() on them): a generator that was entered runs its finally
\* clause, one that was never entered runs nothing
Finalize ==
    /\ stream.pc = "abandoned"
    /\ stream' = IF stream.started
                 THEN IteratorFinally(
                          [stream EXCEPT !.pc = "finished", !.outcome = "cancelled"])
                 ELSE [stream EXCEPT !.pc = "finished", !.outcome = "cancelled"]
    /\ UNCHANGED <<busVars, reqVars, unitVars>>

NextStream ==
    \/ StreamNotConfigured
    \/ StreamTransportError
    \/ StreamResponse
    \/ ErrorBodyRead
    \/ ErrorBodyReadFails
    \/ ConsumerNext
    \/ UpstreamChunk
    \/ UpstreamEnd
    \/ UpstreamError
    \/ DisconnectWhileReading
    \/ DisconnectWhileSending
    \/ Finalize

SpecStream == InitStream /\ [][NextStream]_vars

\* ------------------------------------------------------ passthrough claims

\* the stream was ended by the byte-budget check of iterator()
BudgetFailure == stream.outcome = "failed" /\ stream.error.type = "ProviderError"

\* all of a sequence but its last element
Front(seq) == SubSeq(seq, 1, Len(seq) - 1)

\* C6 as stated: once OpenAIProvider.stream has obtained an upstream response,
\* the response is closed exactly once however the call ends (error status at
\* open, end of stream, read error, budget violation, the consumer stopping,
\* also before its first request): never left open, never closed twice.
C6_ClosedExactlyOnce ==
    /\ stream.aclose_calls <= 1
    /\ (stream.pc = "finished" /\ stream.upstream # "none")
          => (stream.upstream = "closed" /\ stream.aclose_calls = 1)

\* C7: with a budget B > 0 the bytes handed to the client never exceed B; the
\* stream fails exactly at the first chunk that takes the running total above
\* B, that chunk is not emitted, the failure is a ProviderError with status 502
\* and the provider request id, and a total equal to B is no violation.
C7_BudgetNeverExceeded ==
    stream.max_bytes_out > 0 =>
        /\ TotalBytes(stream.emitted) <= stream.max_bytes_out
        /\ BudgetFailure =>
              /\ stream.error = ProviderError(502, stream.provider_request_id)
              /\ TotalBytes(NonEmpty(stream.received)) > stream.max_bytes_out
              /\ stream.emitted = Front(NonEmpty(stream.received))
        /\ ~ BudgetFailure =>
              /\ TotalBytes(NonEmpty(stream.received)) <= stream.max_bytes_out
              /\ stream.emitted = NonEmpty(stream.received)

\* the client holds exactly B bytes and the next chunk has failed the stream
C7_Witness ==
    /\ stream.max_bytes_out > 0
    /\ BudgetFailure
    /\ stream.emitted # <<>>
    /\ TotalBytes(stream.emitted) = stream.max_bytes_out

PyStr(chars) == [t |-> "str", s |-> chars, items |-> <<>>, d |-> {}]
PyList(items) == [t |-> "list", s |-> <<>>, items |-> items, d |-> {}]
PyDict(mapping) ==
    [t |-> "dict", s |-> <<>>, items |-> <<>>,
     d |-> {<<key, mapping[key]>> : key \in DOMAIN mapping}]

\* bool(value) of a str, a list or a dict
Truthy(value) ==
    CASE value.t = "str" -> value.s # <<>>
      [] value.t = "list" -> value.items # <<>>
      [] value.t = "dict" -> value.d # {}

\* isinstance(value, dict) and key in value, and value[key]
HasKey(value, key) == value.t = "dict" /\ \E pair \in value.d : pair[1] = key
Get(value, key) == (CHOOSE pair \in value.d : pair[1] = key)[2]

RECURSIVE Join(_, _)
\* sep.join(parts), for a sequence of strings
Join(sep, parts) ==
    IF parts = <<>> THEN <<>>
    ELSE IF Len(parts) = 1 THEN parts[1]
    ELSE parts[1] \o sep \o Join(sep, Tail(parts))

\* the characters of a dict key, and the order in which repr lists the keys
\* (Python keeps insertion order; the model's dicts are written in this order)
KeyOrder ==
    <<"type", "text", "image_url", "url", "image_base64", "image", "audio", "audio_base64">>
KeyChars(key) ==
    CASE key = "type" -> <<"t", "y", "p", "e">>
      [] key = "text" -> <<"t", "e", "x", "t">>
      [] key = "image_url" -> <<"i", "m", "a", "g", "e", "_", "u", "r", "l">>
      [] key = "url" -> <<"u", "r", "l">>
      [] key = "image_base64" -> <<"i", "m", "a", "g", "e", "_", "b", "a", "s", "e", "6", "4">>
      [] key = "image" -> <<"i", "m", "a", "g", "e">>
      [] key = "audio" -> <<"a", "u", "d", "i", "o">>
      [] key = "audio_base64" -> <<"a", "u", "d", "i", "o", "_", "b", "a", "s", "e", "6", "4">>

RECURSIVE Repr(_)
\* repr(value): quotes around a str, brackets around a list, braces around a dict
Repr(value) ==
    IF value.t = "str" THEN <<"'">> \o value.s \o <<"'">>
    ELSE IF value.t = "list"
    THEN <<"[">> \o Join(<<",", " ">>,
                         [i \in 1..Len(value.items) |-> Repr(value.items[i])])
               \o <<"]">>
    ELSE LET keys == SelectSeq(KeyOrder, LAMBDA k : HasKey(value, k))
         IN  <<"{">> \o Join(<<",", " ">>,
                          [i \in 1..Len(keys) |->
                              <<"'">> \o KeyChars(keys[i]) \o <<"'", ":", " ">>
                                  \o Repr(Get(value, keys[i]))])
                   \o <<"}">>

\* str(value)
Str(value) == IF value.t = "str" THEN value.s ELSE Repr(value)

RECURSIVE _flatten_content_to_text(_)
\* models._flatten_content_to_text
_flatten_content_to_text(content) ==
    IF content.t = "str" THEN content.s
    ELSE IF content.t = "list"
    THEN Join(<<"\n">>,
              SelectSeq([i \in 1..Len(content.items) |->
                            _flatten_content_to_text(content.items[i])],
                        LAMBDA item : item # <<>>))
    ELSE IF HasKey(content, "text") /\ Get(content, "text").t = "str"
    THEN Get(content, "text").s
    ELSE IF HasKey(content, "text") /\ Get(content, "text").t = "list"
    THEN Join(<<"\n">>,
              LET items == SelectSeq(Get(content, "text").items, Truthy)
              IN  [i \in 1..Len(items) |-> Str(items[i])])
    ELSE IF /\ HasKey(content, "image_url")
            /\ HasKey(Get(content, "image_url"), "url")
            /\ Truthy(Get(Get(content, "image_url"), "url"))
    THEN Str(Get(Get(content, "image_url"), "url"))   \* the url, a str in the model
    ELSE IF HasKey(content, "image_base64") \/ HasKey(content, "image")
    THEN <<"<", "i", "m", "a", "g", "e", ">">>
    ELSE IF \/ HasKey(content, "audio") /\ Truthy(Get(content, "audio"))
            \/ HasKey(content, "audio_base64") /\ Truthy(Get(content, "audio_base64"))
    THEN <<"<", "a", "u", "d", "i", "o", ">">>
    ELSE IF HasKey(content, "type")
    THEN <<"<">> \o Str(Get(content, "type")) \o <<">">>
    ELSE Str(content)

\* a test for structured chunks that knows the type tag only
IsStructuredByTypeOnly(entry) == HasKey(entry, "type")

\* routes._is_structured_chunk
_is_structured_chunk(entry) ==
    HasKey(entry, "type") \/ HasKey(entry, "image_url")
        \/ HasKey(entry, "image_base64") \/ HasKey(entry, "image")

\* routes._normalize_content
_normalize_content(content) ==
    IF content.t = "str" THEN content
    ELSE IF content.t = "list"
    THEN IF \E i \in 1..Len(content.items) : _is_structured_chunk(content.items[i])
         THEN content
         ELSE PyStr(Join(<<"\n">>,
                  [i \in 1..Len(content.items) |->
                      IF HasKey(content.items[i], "text")
                      THEN Str(Get(content.items[i], "text"))
                      ELSE Str(content.items[i])]))
    ELSE IF _is_structured_chunk(content) THEN content
    ELSE IF HasKey(content, "text") THEN PyStr(Str(Get(content, "text")))
    ELSE PyStr(Str(content))

\* models.Message
Message(role, content) == [role |-> role, content |-> content]

\* Message.as_text
as_text(message) == _flatten_content_to_text(message.content)

\* routes._convert_message
_convert_message(message) == Message(message.role, _normalize_content(message.content))

RECURSIVE TotalChars(_)
\* routes._estimate_tokens: total_chars, the sum of len(msg.as_text())
TotalChars(messages) ==
    IF messages = <<>> THEN 0
    ELSE Len(as_text(Head(messages))) + TotalChars(Tail(messages))

\* an estimate that rounds the quotient up instead of down
EstimateTokensCeil(messages) == (TotalChars(messages) + 3) \div 4

\* routes._estimate_tokens
_estimate_tokens(messages) == TotalChars(messages) \div 4

\* ------------------------------------------------------- responses handler

\* routes.MAX_REQUEST_BYTES
MAX_REQUEST_BYTES == 256000

\* str.split(":", 1) of a str that holds a colon: the parts around the first one
FirstColon(str) == CHOOSE i \in 1..Len(str) :
                       str[i] = ":" /\ \A j \in 1..(i - 1) : str[j] # ":"
SplitOnce(str) ==
    <<SubSeq(str, 1, FirstColon(str) - 1), SubSeq(str, FirstColon(str) + 1, Len(str))>>

\* a parse that splits at the last colon instead of the first
ParseAtLastColon(model, default_provider) ==
    IF \E i \in 1..Len(model) : model[i] = ":"
    THEN LET last == CHOOSE i \in 1..Len(model) :
                         model[i] = ":" /\ \A j \in (i + 1)..Len(model) : model[j] # ":"
         IN  <<Lower(SubSeq(model, 1, last - 1)), SubSeq(model, last + 1, Len(model))>>
    ELSE <<default_provider, model>>

\* routes._parse_model_identifier: <<provider, upstream model>>
_parse_model_identifier(model, default_provider) ==
    IF \E i \in 1..Len(model) : model[i] = ":"
    THEN <<Lower(SplitOnce(model)[1]), SplitOnce(model)[2]>>
    ELSE <<default_provider, model>>

\* routes._to_chat_request: the messages of the ChatRequest
_to_chat_request(payload) == [i \in 1..Len(payload.input) |-> _convert_message(payload.input[i])]

\* routes._body_size: len(raw_body) of a non-empty body, else the
\* content-length header if it is a number (-1: absent or no number), else
\* the length of the re-serialized payload
_body_size(raw_body, content_length, serialized) ==
    IF raw_body > 0 THEN raw_body
    ELSE IF content_length >= 0 THEN content_length
    ELSE serialized

\* a body guard that also rejects a body of exactly the ceiling
BodyGuardAtCeiling(length) == length >= MAX_REQUEST_BYTES

\* routes._guard_body_size raises
_guard_body_size(length) == length > MAX_REQUEST_BYTES

\* routes._guard_token_budget raises
_guard_token_budget(messages, ceiling) == _estimate_tokens(messages) > ceiling

\* models.ChatResponse: the fields the routes read
ChatResponse(provider, output_text, provider_request_id) ==
    [provider |-> provider, output_text |-> output_text,
     provider_request_id |-> provider_request_id]
NoResponse == ChatResponse(NoneStr, <<>>, None)

\* EchoProvider.chat: f"[echo::{request.model}] {latest_text}"
EchoChat(model, messages) ==
    ChatResponse(EchoName,
                 <<"[", "e", "c", "h", "o", ":", ":">> \o model \o <<"]", " ">> \o as_text(messages[Len(messages)]),
                 None)

\* the event names of the synthesized stream, in an order the gateway does
\* not use: completed before the delta
EventNamesCompletedFirst ==
    <<"response.created", "response.completed", "response.output_text.delta">>

\* create_response.event_generator: the event names, in the order of its yields
EventNames ==
    <<"response.created", "response.output_text.delta", "response.completed">>

\* create_response.event_generator: the n-th event it yields (format_event of
\* the name and the payload; of the payload the type and the output text)
event_generator(response, n) ==
    [event |-> EventNames[n],
     data |-> IF n = 1
              THEN [type |-> EventNames[n], output_text |-> <<>>]
              ELSE [type |-> EventNames[n], output_text |-> <<response.output_text>>]]

\* --------------------------------------------------------- request inputs

\* payload.model values: with and without a provider prefix, a prefix in
\* upper case, an unregistered prefix, an empty prefix, a second colon
ModelIds ==
    {<<"e", "c", "h", "o", ":", "m">>,
     <<"O", "p", "e", "n", "A", "I", ":", "m">>,
     <<"g", "e", "m", "i", "n", "i", ":", "m", ":", "v">>,
     <<"c", "l", "a", "u", "d", "e", ":", "m">>,
     <<"b", "o", "g", "u", "s", ":", "m">>,
     <<":", "m">>,
     <<"m">>}

\* settings.default_provider values: a registered name, one in another case,
\* the empty string (DEFAULT_PROVIDER="": no default configured), and a name
\* no adapter has
DefaultProviders ==
    {EchoName, <<"O", "p", "e", "n", "A", "I">>, <<>>, <<"B", "o", "g", "u", "s">>}

\* the adapters whose api key is set in the settings: none of them, all of them
KeySets == {{}, NetworkAdapters}

\* message contents: strings, a list of strings, a typed chunk, a text dict
Contents ==
    {PyStr(<<>>),
     PyStr(<<"a", "b", "c">>),
     PyStr(<<"a", "b", "c", "d">>),
     PyList(<<PyStr(<<"a", "b">>), PyStr(<<"c", "d">>)>>),
     PyDict([type |-> PyStr(<<"i", "n", "p", "u", "t", "_", "t", "e", "x", "t">>),
             text |-> PyStr(<<"h", "e", "l", "l", "o", "!", "!">>)]),
     PyDict([text |-> PyStr(<<"a", "b", "c", "d", "e", "f", "g", "h">>)])}

\* payload.input: 1..MaxMessages user messages (the schema rejects an empty list)
Inputs ==
    UNION {[1..n -> {Message("user", c) : c \in Contents}] : n \in 1..MaxMessages}

\* len(raw_body): below, at and above the ceiling
BodySizes == {MAX_REQUEST_BYTES - 1, MAX_REQUEST_BYTES, MAX_REQUEST_BYTES + 1}

\* create_response entered with a validated payload and the raw body
Request(model, input, raw_body) ==
    [pc |-> "handler",
     payload |-> [model |-> model, input |-> input],
     raw_body |-> raw_body,          \* len(await request.body())
     bytes_in |-> 0,
     provider_name |-> NoneStr,
     upstream_model |-> NoneStr,
     messages |-> <<>>,              \* chat_request.messages
     strategy |-> "none",            \* synthesized or passthrough
     adapter |-> "none",             \* the adapter gateway.chat resolved
     chat_calls |-> 0,               \* invocations of an adapter's chat
     stream_calls |-> 0,             \* invocations of an adapter's stream
     upstream_calls |-> 0,           \* HTTP requests sent to an upstream API
     response |-> NoResponse,        \* what gateway.chat returned
     error |-> NoError,              \* the exception gateway.chat raised
     http_error |-> NoHTTPException, \* the HTTPException the handler raised
     events |-> <<>>]                \* the SSE events sent to the client

InitReq ==
    /\ BusEmpty
    /\ max_messages = DefaultMaxMessages
    /\ stream = NoStream
    /\ UnitIdle
    /\ \E d \in DefaultProviders, k \in KeySets :
           settings = [default_provider |-> d, keys |-> k]
    /\ MAX_INPUT_TOKENS \in 1..MaxTokenCeiling
    /\ \E m \in ModelIds, i \in Inputs, b \in BodySizes : req = Request(m, i, b)

\* ------------------------------------------------- responses handler steps

\* the handler raises: FastAPI answers with the HTTPException's status and detail
Raise(request, http_error) ==
    [request EXCEPT !.pc = "rejected", !.http_error = http_error]

\* gateway.chat raised exc: except Exception as exc: raise map_exception(exc,
\* provider_name) from exc
RaiseMapped(request, exc) ==
    [request EXCEPT !.pc = "rejected", !.error = exc,
                    !.http_error = map_exception(exc, request.provider_name)]

\* a not-registered error that carries a status
NotRegisteredWithStatus(name) ==
    [type |-> "ProviderError", status_code |-> 404, provider_request_id |-> None,
     message |-> <<"P", "r", "o", "v", "i", "d", "e", "r", " ", "'">> \o name
                     \o <<"'", " ", "i", "s", " ", "n", "o", "t", " ", "r", "e", "g", "i", "s", "t", "e", "r", "e", "d">>]

\* GatewayService.chat: ProviderError(f"Provider '{provider_name}' is not registered")
NotRegisteredError(name) ==
    [type |-> "ProviderError", status_code |-> 0, provider_request_id |-> None,
     message |-> <<"P", "r", "o", "v", "i", "d", "e", "r", " ", "'">> \o name
                     \o <<"'", " ", "i", "s", " ", "n", "o", "t", " ", "r", "e", "g", "i", "s", "t", "e", "r", "e", "d">>]

\* create_response up to its first await of an adapter: the body guard,
\* _parse_model_identifier, _to_chat_request, the token guard. A body that
\* passed validation is not empty, so neither fallback of _body_size is read;
\* the header and the serialized length are given as the body's length.
HandlerGuards ==
    /\ req.pc = "handler"
    /\ LET bytes_in == _body_size(req.raw_body, req.raw_body, req.raw_body)
           parsed == _parse_model_identifier(req.payload.model, settings.default_provider)
           messages == _to_chat_request(req.payload)
       IN  req' =
             IF _guard_body_size(bytes_in)
             THEN Raise([req EXCEPT !.bytes_in = bytes_in],
                        HTTPException(413, "body_too_large", NoneStr, 0, None))
             ELSE IF _guard_token_budget(messages, MAX_INPUT_TOKENS)
             THEN Raise([req EXCEPT !.bytes_in = bytes_in,
                                    !.provider_name = parsed[1],
                                    !.upstream_model = parsed[2],
                                    !.messages = messages],
                        HTTPException(413, "input_too_large", NoneStr, 0, None))
             ELSE [req EXCEPT !.pc = "dispatch",
                              !.bytes_in = bytes_in,
                              !.provider_name = parsed[1],
                              !.upstream_model = parsed[2],
                              !.messages = messages]
    /\ UNCHANGED <<busVars, stream, settings, MAX_INPUT_TOKENS, unitVars>>

\* if provider_name == "openai": return await _stream_openai(...), which calls
\* provider.stream(chat_request, trace_id, max_bytes_out=MAX_REQUEST_BYTES * 4)
DispatchPassthrough ==
    /\ req.pc = "dispatch"
    /\ req.provider_name = OpenAIName
    /\ req' = [req EXCEPT !.pc = "passthrough",
                          !.strategy = "passthrough",
                          !.adapter = RegistryGet(OpenAIName),
                          !.stream_calls = @ + 1]
    /\ stream' = StreamCall("openai" \in settings.keys, MAX_REQUEST_BYTES * 4)
    /\ UNCHANGED <<busVars, settings, MAX_INPUT_TOKENS, unitVars>>

\* GatewayService.chat: provider_name = request.provider or default_provider
ChatProviderName ==
    IF req.provider_name # <<>> THEN req.provider_name ELSE settings.default_provider

\* GatewayService.chat: the registry has no such provider, ProviderError
\* without a status; create_response maps it
ChatUnknownProvider ==
    /\ req.pc = "dispatch"
    /\ req.provider_name # OpenAIName
    /\ RegistryGet(ChatProviderName) = "none"
    /\ req' = RaiseMapped([req EXCEPT !.strategy = "synthesized"],
                          NotRegisteredError(ChatProviderName))
    /\ UNCHANGED <<busVars, stream, settings, MAX_INPUT_TOKENS, unitVars>>

\* a handler that sends response.created before it awaits the adapter
ChatCallEmitsCreated ==
    /\ req.pc = "dispatch"
    /\ req.provider_name # OpenAIName
    /\ RegistryGet(ChatProviderName) # "none"
    /\ req' = [req EXCEPT !.pc = "chat",
                          !.strategy = "synthesized",
                          !.adapter = RegistryGet(ChatProviderName),
                          !.chat_calls = @ + 1,
                          !.events = <<event_generator(NoResponse, 1)>>]
    /\ UNCHANGED <<busVars, stream, settings, MAX_INPUT_TOKENS, unitVars>>

\* GatewayService.chat: result = await provider.chat(request, trace_id=trace_id)
ChatCall ==
    /\ req.pc = "dispatch"
    /\ req.provider_name # OpenAIName
    /\ RegistryGet(ChatProviderName) # "none"
    /\ req' = [req EXCEPT !.pc = "chat",
                          !.strategy = "synthesized",
                          !.adapter = RegistryGet(ChatProviderName),
                          !.chat_calls = @ + 1]
    /\ UNCHANGED <<busVars, stream, settings, MAX_INPUT_TOKENS, unitVars>>

\* EchoProvider.chat returns
EchoReturns ==
    /\ req.pc = "chat"
    /\ req.adapter = "echo"
    /\ req' = [req EXCEPT !.pc = "streaming",
                          !.response = EchoChat(req.upstream_model, req.messages)]
    /\ UNCHANGED <<busVars, stream, settings, MAX_INPUT_TOKENS, unitVars>>

\* OpenAIProvider/GeminiProvider/ClaudeProvider.chat: if not api_key: raise
\* ProviderNotConfiguredError
ChatNotConfigured ==
    /\ req.pc = "chat"
    /\ req.adapter \in NetworkAdapters
    /\ req.adapter \notin settings.keys
    /\ req' = RaiseMapped(req, ProviderNotConfiguredError)
    /\ UNCHANGED <<busVars, stream, settings, MAX_INPUT_TOKENS, unitVars>>

\* a ClaudeProvider.chat that sends its request without looking at the key
ChatPostUnchecked ==
    /\ req.pc = "chat"
    /\ req.adapter \in NetworkAdapters
    /\ req.adapter \in settings.keys \/ req.adapter = "claude"
    /\ req' = [req EXCEPT !.pc = "upstream", !.upstream_calls = @ + 1]
    /\ UNCHANGED <<busVars, stream, settings, MAX_INPUT_TOKENS, unitVars>>

\* the adapter sends its request: await self._client.post(...)
ChatPost ==
    /\ req.pc = "chat"
    /\ req.adapter \in NetworkAdapters
    /\ req.adapter \in settings.keys
    /\ req' = [req EXCEPT !.pc = "upstream", !.upstream_calls = @ + 1]
    /\ UNCHANGED <<busVars, stream, settings, MAX_INPUT_TOKENS, unitVars>>

\* output texts an upstream reply may carry
OutputTexts == {<<>>, <<"o", "k">>}

\* the upstream answers with a status >= 400: the adapter raises ProviderError
\* with the status and the request id header, create_response maps it
ChatUpstreamFailure ==
    /\ req.pc = "upstream"
    /\ \E status \in UpstreamStatuses, rid \in RequestIdHeaders :
          /\ status >= 400
          /\ req' = RaiseMapped(req, ProviderError(status, rid))
    /\ UNCHANGED <<busVars, stream, settings, MAX_INPUT_TOKENS, unitVars>>

\* the upstream answers below 400: the adapter returns a ChatResponse; only
\* OpenAIProvider.chat passes the request id header on
ChatUpstreamSuccess ==
    /\ req.pc = "upstream"
    /\ \E status \in UpstreamStatuses, rid \in RequestIdHeaders, text \in OutputTexts :
          /\ status < 400
          /\ req' = [req EXCEPT
                       !.pc = "streaming",
                       !.response = ChatResponse(AdapterName(req.adapter), text,
                                        IF req.adapter = "openai" THEN rid ELSE None)]
    /\ UNCHANGED <<busVars, stream, settings, MAX_INPUT_TOKENS, unitVars>>

\* adapters that send their request once more after a transport error
ChatTransportErrorRetried ==
    /\ req.pc = "upstream"
    /\ req' = [req EXCEPT !.pc = IF req.upstream_calls < 2 THEN "chat" ELSE "rejected"]
    /\ UNCHANGED <<busVars, stream, settings, MAX_INPUT_TOKENS, unitVars>>

\* self._client.post raises: GeminiProvider.chat turns a timeout into
\* ProviderError 504 and any other request error into ProviderError 502; the
\* other two adapters let the httpx exception through to create_response
ChatTransportError ==
    /\ req.pc = "upstream"
    /\ \E timeout \in BOOLEAN :
          LET exc == IF req.adapter = "gemini"
                     THEN ProviderError(IF timeout THEN 504 ELSE 502, None)
                     ELSE TransportError(timeout)
          IN  req' = RaiseMapped(req, exc)
    /\ UNCHANGED <<busVars, stream, settings, MAX_INPUT_TOKENS, unitVars>>

\* the StreamingResponse asks event_generator for its next event and sends it
EmitEvent ==
    /\ req.pc = "streaming"
    /\ Len(req.events) < Len(EventNames)
    /\ req' = [req EXCEPT
                 !.events = Append(@, event_generator(req.response, Len(req.events) + 1))]
    /\ UNCHANGED <<busVars, stream, settings, MAX_INPUT_TOKENS, unitVars>>

\* event_generator returns after its third yield: the response body ends
GeneratorReturns ==
    /\ req.pc = "streaming"
    /\ Len(req.events) = Len(EventNames)
    /\ req' = [req EXCEPT !.pc = "done"]
    /\ UNCHANGED <<busVars, stream, settings, MAX_INPUT_TOKENS, unitVars>>

\* the client goes away while the synthesized stream is being sent: the
\* StreamingResponse is cancelled and asks for no further event
ClientDisconnect ==
    /\ req.pc = "streaming"
    /\ req' = [req EXCEPT !.pc = "disconnected"]
    /\ UNCHANGED <<busVars, stream, settings, MAX_INPUT_TOKENS, unitVars>>

NextReq ==
    \/ HandlerGuards
    \/ DispatchPassthrough
    \/ ChatUnknownProvider
    \/ ChatCall
    \/ EchoReturns
    \/ ChatNotConfigured
    \/ ChatPost
    \/ ChatUpstreamFailure
    \/ ChatUpstreamSuccess
    \/ ChatTransportError
    \/ EmitEvent
    \/ GeneratorReturns
    \/ ClientDisconnect

SpecReq == InitReq /\ [][NextReq]_vars

\* ------------------------------------------------------- responses claims

\* the names of a sequence of SSE events
Names(events) == [i \in 1..Len(events) |-> events[i].event]

\* the handler answered 413 with the given error code
Rejected413(code) ==
    /\ req.pc = "rejected"
    /\ req.http_error.status_code = 413
    /\ req.http_error.code = code

\* no adapter's chat or stream was invoked, nothing was sent upstream
NoAdapterInvoked ==
    /\ req.chat_calls = 0
    /\ req.stream_calls = 0
    /\ req.upstream_calls = 0
    /\ stream.pc = "none"

\* T: the sum over the request's messages of the length of the flattened text
FlattenedChars == TotalChars(_to_chat_request(req.payload))

\* C1: a request served by the synthesized strategy whose adapter chat call
\* succeeded sends the client response.created, response.output_text.delta,
\* response.completed, in that order, each once and nothing else: what has
\* been sent is always the beginning of that sequence, it is the whole of it
\* when the response body has ended, and no event is sent on any other path
\* of the handler.
C1_SynthesizedEventSequence ==
    /\ Len(req.events) <= 3
    /\ Names(req.events) =
          SubSeq(<<"response.created", "response.output_text.delta",
                   "response.completed">>, 1, Len(req.events))
    /\ (req.strategy = "synthesized" /\ req.pc = "done") => Len(req.events) = 3
    /\ req.events # <<>> =>
          req.strategy = "synthesized" /\ req.pc \in {"streaming", "done", "disconnected"}

\* a network adapter's chat succeeded and the synthesized stream ran to its end
C1_Witness ==
    /\ req.strategy = "synthesized"
    /\ req.adapter \in NetworkAdapters
    /\ req.pc = "done"
    /\ Len(req.events) = 3

\* C9: a request whose body is larger than MAX_REQUEST_BYTES is answered 413
\* body_too_large and no adapter's chat or stream is invoked for it, whatever
\* provider it names; a body of exactly MAX_REQUEST_BYTES is not rejected by
\* this guard.
C9_BodyTooLargeRejected ==
    req.pc # "handler" =>
        /\ req.raw_body > MAX_REQUEST_BYTES =>
              /\ Rejected413("body_too_large")
              /\ NoAdapterInvoked
              /\ req.events = <<>>
        /\ req.raw_body <= MAX_REQUEST_BYTES => req.http_error.code # "body_too_large"

\* a request naming the passthrough provider was rejected for its body size
C9_Witness ==
    /\ Rejected413("body_too_large")
    /\ req.raw_body = MAX_REQUEST_BYTES + 1
    /\ _parse_model_identifier(req.payload.model, settings.default_provider)[1] = OpenAIName

\* C10 as stated: a request is answered 413 input_too_large exactly when
\* floor(T / 4) > MAX_INPUT_TOKENS, whatever the size of its body.
C10_RejectedExactlyWhenOverCeiling ==
    req.pc # "handler" =>
        (Rejected413("input_too_large") <=> FlattenedChars \div 4 > MAX_INPUT_TOKENS)

\* C10: a request that passes the body-size guard is answered 413
\* input_too_large exactly when floor(T / 4) > MAX_INPUT_TOKENS; on that
\* rejection no adapter's chat or stream is invoked; a request with
\* floor(T / 4) equal to the ceiling passes the guard.
C10_TokenGuard ==
    (req.pc # "handler" /\ req.raw_body <= MAX_REQUEST_BYTES) =>
        /\ Rejected413("input_too_large") <=> FlattenedChars \div 4 > MAX_INPUT_TOKENS
        /\ Rejected413("input_too_large") => NoAdapterInvoked /\ req.events = <<>>

\* a request one estimated token above the ceiling was rejected
C10_Witness ==
    /\ Rejected413("input_too_large")
    /\ FlattenedChars \div 4 = MAX_INPUT_TOKENS + 1

\* ------------------------------------------------- map_exception on its own

\* status codes a ProviderError may carry (0: none), around each boundary of
\* the mapping
StatusCodes == {0, 200, 399, 400, 401, 402, 403, 404, 428, 429, 430, 499, 500, 501, 503, 599}

\* an exception that is neither of the two provider errors
OtherException == [type |-> "ValueError", status_code |-> 0, provider_request_id |-> None]

\* exceptions map_exception may be handed
Exceptions ==
    {ProviderNotConfiguredError, OtherException, TransportError(TRUE), TransportError(FALSE)}
        \cup {ProviderError(status, rid) : status \in StatusCodes, rid \in RequestIdHeaders}

\* provider arguments: None, a registered name, an unregistered name
ProviderArgs == {NoneStr, EchoName, <<"b", "o", "g", "u", "s">>}

\* the gateway idle but for the evaluation
RestIdle ==
    /\ BusEmpty
    /\ max_messages = DefaultMaxMessages
    /\ stream = NoStream
    /\ ResponsesIdle
    /\ registry = _providers

InitMapException ==
    /\ RestIdle
    /\ \E exc \in Exceptions, provider \in ProviderArgs :
          eval = [fn |-> "map_exception", pc |-> "call", exc |-> exc,
                  provider |-> provider, result |-> NoHTTPException]

\* map_exception(exc, provider) returns
MapExceptionReturns ==
    /\ eval.fn = "map_exception"
    /\ eval.pc = "call"
    /\ eval' = [eval EXCEPT !.pc = "returned",
                            !.result = map_exception(eval.exc, eval.provider)]
    /\ UNCHANGED <<busVars, stream, reqVars, registry>>

NextMapException == MapExceptionReturns

SpecMapException == InitMapException /\ [][NextMapException]_vars

\* C11: map_exception returns the code and status of the taxonomy table for
\* every exception: not configured -> provider_not_configured / 424;
\* ProviderError 401 or 403 -> upstream_auth_error / 502; 429 ->
\* upstream_rate_limited / 429; >= 500 -> upstream_unavailable / 502; any
\* other ProviderError -> provider_error / 502; anything else ->
\* internal_error / 500; a ProviderError's status and request id are carried
\* into the error body unchanged.
C11_TaxonomyTable ==
    (eval.fn = "map_exception" /\ eval.pc = "returned") =>
        LET exc == eval.exc
            r == eval.result
            Is(code, http_status) == r.code = code /\ r.status_code = http_status
        IN  /\ exc.type = "ProviderNotConfiguredError" => Is("provider_not_configured", 424)
            /\ exc.type = "ProviderError" =>
                  /\ exc.status_code \in {401, 403} => Is("upstream_auth_error", 502)
                  /\ exc.status_code = 429 => Is("upstream_rate_limited", 429)
                  /\ exc.status_code >= 500 => Is("upstream_unavailable", 502)
                  /\ (exc.status_code \notin {401, 403, 429} /\ exc.status_code < 500)
                        => Is("provider_error", 502)
                  /\ r.upstream_status = exc.status_code
                  /\ r.provider_request_id = exc.provider_request_id
            /\ exc.type \notin {"ProviderNotConfiguredError", "ProviderError"}
                  => Is("internal_error", 500)

\* a ProviderError with status 429 and a request id has been mapped
C11_Witness ==
    /\ eval.fn = "map_exception"
    /\ eval.pc = "returned"
    /\ eval.exc = ProviderError(429, "req_stream")
    /\ eval.result.status_code = 429

\* ------------------------------------------------------ error path claims

\* the error codes of the taxonomy
TaxonomyCodes ==
    {"provider_not_configured", "upstream_auth_error", "upstream_rate_limited",
     "upstream_unavailable", "provider_error", "internal_error",
     "body_too_large", "input_too_large"}

\* C12 as stated: every failure of a passthrough request, at the opening of
\* the upstream stream or while it is relayed (the byte-budget violation
\* included), reaches the client as one error of the taxonomy, produced by
\* map_exception; no exception leaves the handler unmapped.
C12_EveryFailureMapped ==
    (stream.pc = "finished" /\ stream.outcome \in {"rejected", "failed"}) =>
        /\ stream.http_error.code \in TaxonomyCodes
        /\ stream.error.type # "none" =>
              stream.http_error = map_exception(stream.error, OpenAIName)

\* the handler went past both guards of create_response
PassedGuards ==
    /\ req.pc \notin {"none", "handler"}
    /\ req.http_error.code \notin {"body_too_large", "input_too_large"}

\* the model identifier of the request has no provider prefix
NoPrefix == \A i \in 1..Len(req.payload.model) : req.payload.model[i] # ":"

\* C13 as stated: a request whose model identifier has no provider prefix, on
\* a gateway whose default provider is empty, fails with 422 and code
\* provider_required, and no adapter is invoked.
C13_ProviderRequired ==
    (PassedGuards /\ req.pc # "dispatch" /\ NoPrefix /\ settings.default_provider = <<>>) =>
        /\ req.pc = "rejected"
        /\ req.http_error.status_code = 422
        /\ req.http_error.code = "provider_required"
        /\ NoAdapterInvoked

\* name occurs in text as a contiguous substring
Contains(text, name) ==
    \E i \in 0..(Len(text) - Len(name)) : SubSeq(text, i + 1, i + Len(name)) = name

\* the names under which GatewayService registers its four adapters
RegisteredNames == {EchoName, OpenAIName, GeminiName, ClaudeName}

\* C14: a request naming a provider (by its prefix or, without a prefix, by
\* the default) that has no entry in the registry fails with a ProviderError
\* without upstream status whose message names the provider; the client gets
\* 502 provider_error with the provider field equal to that name, and no
\* adapter is invoked.
C14_UnknownProviderRejected ==
    (/\ PassedGuards
     /\ req.pc # "dispatch"
     /\ req.provider_name # <<>>
     /\ Lower(req.provider_name) \notin RegisteredNames) =>
        /\ req.pc = "rejected"
        /\ req.error.type = "ProviderError"
        /\ req.error.status_code = 0
        /\ Contains(req.error.message, req.provider_name)
        /\ req.http_error.status_code = 502
        /\ req.http_error.code = "provider_error"
        /\ req.http_error.provider = req.provider_name
        /\ req.http_error.upstream_status = 0
        /\ NoAdapterInvoked

\* a request for bogus:m has been rejected
C14_Witness ==
    /\ req.pc = "rejected"
    /\ req.payload.model = <<"b", "o", "g", "u", "s", ":", "m">>
    /\ req.http_error.provider = <<"b", "o", "g", "u", "s">>
    /\ req.http_error.code = "provider_error"

\* --------------------------------------- _parse_model_identifier on its own

\* Longest model identifier the parse is evaluated on.
MaxIdLen == 3

\* identifiers over an upper-case letter, a lower-case letter and the separator
IdChars == {"A", "e", ":"}
Identifiers == UNION {[1..n -> IdChars] : n \in 0..MaxIdLen}

InitParse ==
    /\ RestIdle
    /\ \E model \in Identifiers, d \in DefaultProviders :
          eval = [fn |-> "_parse_model_identifier", pc |-> "call", model |-> model,
                  default_provider |-> d, result |-> <<NoneStr, NoneStr>>]

\* _parse_model_identifier(model, default_provider) returns
ParseReturns ==
    /\ eval.fn = "_parse_model_identifier"
    /\ eval.pc = "call"
    /\ eval' = [eval EXCEPT
                  !.pc = "returned",
                  !.result = _parse_model_identifier(eval.model, eval.default_provider)]
    /\ UNCHANGED <<busVars, stream, reqVars, registry>>

NextParse == ParseReturns

SpecParse == InitParse /\ [][NextParse]_vars

\* C15: for an identifier with a ':' the provider is the lower-cased text
\* before the first ':' and the model is everything after that ':' (later
\* separators stay in it); for an identifier without ':' the provider is the
\* default provider unchanged and the model is the whole identifier.
C15_ParsedIdentifier ==
    (eval.fn = "_parse_model_identifier" /\ eval.pc = "returned") =>
        LET model == eval.model
            provider == eval.result[1]
            upstream == eval.result[2]
        IN  IF \E i \in 1..Len(model) : model[i] = ":"
            THEN \E k \in 1..Len(model) :
                    /\ model[k] = ":"
                    /\ \A j \in 1..(k - 1) : model[j] # ":"
                    /\ Len(provider) = k - 1
                    /\ \A j \in 1..(k - 1) : provider[j] = LowerChar(model[j])
                    /\ Len(upstream) = Len(model) - k
                    /\ \A j \in 1..Len(upstream) : upstream[j] = model[k + j]
            ELSE provider = eval.default_provider /\ upstream = model

\* an identifier with an upper-case prefix and two separators has been parsed
C15_Witness ==
    /\ eval.fn = "_parse_model_identifier"
    /\ eval.pc = "returned"
    /\ eval.model = <<"A", ":", ":">>
    /\ eval.result = <<<<"a">>, <<":">>>>

\* ------------------------------------------------ ProviderRegistry on its own

\* Number of register calls in one behaviour.
MaxRegister == 2

\* name attributes of the providers registered, names looked up, and the
\* provider objects
RegisterNames == {<<"a">>, <<"A">>, <<"e">>}
LookupNames == {<<"a">>, <<"A">>, <<"e">>, <<"E">>}
ProviderObjects == {"p1", "p2"}

\* ProviderRegistry(): an empty registry; log is the ghost sequence of the
\* register calls made so far
InitRegistry ==
    /\ BusEmpty
    /\ max_messages = DefaultMaxMessages
    /\ stream = NoStream
    /\ ResponsesIdle
    /\ registry = EmptyRegistry
    /\ eval = [fn |-> "ProviderRegistry", pc |-> "new", log |-> <<>>,
               name |-> NoneStr, result |-> "none"]

\* registry.register(provider), provider.name being name
RegisterCall ==
    /\ eval.fn = "ProviderRegistry"
    /\ Len(eval.log) < MaxRegister
    /\ \E name \in RegisterNames, provider \in ProviderObjects :
          /\ registry' = register(registry, name, provider)
          /\ eval' = [eval EXCEPT !.pc = "registered",
                                  !.log = Append(@, [name |-> name, provider |-> provider]),
                                  !.name = name,
                                  !.result = "none"]
    /\ UNCHANGED <<busVars, stream, reqVars>>

\* registry.get(name)
GetCall ==
    /\ eval.fn = "ProviderRegistry"
    /\ \E name \in LookupNames :
          eval' = [eval EXCEPT !.pc = "got", !.name = name,
                               !.result = get(registry, name)]
    /\ UNCHANGED <<busVars, stream, reqVars, registry>>

NextRegistry == RegisterCall \/ GetCall

SpecRegistry == InitRegistry /\ [][NextRegistry]_vars

\* the provider of the last register call of log under a name equal to name
\* ignoring case, "none" if there is no such call
MostRecent(log, name) ==
    LET hits == {i \in 1..Len(log) : Lower(log[i].name) = Lower(name)}
    IN  IF hits = {} THEN "none"
        ELSE log[CHOOSE i \in hits : \A j \in hits : j <= i].provider

\* C16: after any sequence of register calls, get(n) returns the adapter most
\* recently registered under a name equal to n ignoring case, or not-found if
\* there is none; a register call, duplicate or not, succeeds and changes no
\* entry but the one of the adapter's lower-cased name.
C16_RegistryLastWins ==
    [][/\ eval'.pc = "got" => eval'.result = MostRecent(eval'.log, eval'.name)
       /\ eval'.pc = "registered" =>
             /\ DOMAIN registry' = DOMAIN registry \cup {Lower(eval'.name)}
             /\ registry'[Lower(eval'.name)] = eval'.log[Len(eval'.log)].provider
             /\ \A key \in DOMAIN registry :
                   key # Lower(eval'.name) => registry'[key] = registry[key]]_vars

\* a second provider was registered under the name of the first in another
\* case, and a lookup returned the second
C16_Witness ==
    /\ eval.fn = "ProviderRegistry"
    /\ eval.pc = "got"
    /\ Len(eval.log) = 2
    /\ eval.log[1].name # eval.log[2].name
    /\ Lower(eval.log[1].name) = Lower(eval.log[2].name)
    /\ eval.log[1].provider # eval.log[2].provider
    /\ Lower(eval.name) = Lower(eval.log[2].name)
    /\ eval.result = eval.log[2].provider

\* -------------------------------------------- message content on its own

\* Longest content list the normalization is evaluated on.
MaxParts == 2

\* parts of a content list: strings, a text mapping without a type tag, a
\* typed text part, typed and untyped image parts, an audio part
Parts ==
    {PyStr(<<"a", "b">>),
     PyStr(<<>>),
     PyDict([text |-> PyStr(<<"c", "d">>)]),
     PyDict([type |-> PyStr(<<"i", "n", "p", "u", "t", "_", "t", "e", "x", "t">>), text |-> PyStr(<<"h", "i">>)]),
     PyDict([type |-> PyStr(<<"i", "n", "p", "u", "t", "_", "i", "m", "a", "g", "e">>),
             image_url |-> PyDict([url |-> PyStr(<<"u">>)])]),
     PyDict([image_base64 |-> PyStr(<<"Z", "g">>)]),
     PyDict([audio |-> PyStr(<<"w">>)])}

\* contents of a message: a part on its own or a list of 0..MaxParts parts
PartLists == {PyList(items) : items \in UNION {[1..n -> Parts] : n \in 0..MaxParts}}
MessageContents == Parts \cup PartLists

InitContent ==
    /\ RestIdle
    /\ \E content \in MessageContents :
          eval = [fn |-> "content", content |-> content,
                  converted |-> FALSE, message |-> Message("user", PyStr(<<>>)),
                  flattened |-> FALSE, text |-> <<>>]

\* _convert_message(ResponseInputMessage(role="user", content=content)): the
\* Message the ChatRequest handed to the adapter holds
ConvertMessageReturns ==
    /\ eval.fn = "content"
    /\ ~ eval.converted
    /\ eval' = [eval EXCEPT !.converted = TRUE,
                            !.message = _convert_message(Message("user", eval.content))]
    /\ UNCHANGED <<busVars, stream, reqVars, registry>>

\* Message(role="user", content=content).as_text()
AsTextReturns ==
    /\ eval.fn = "content"
    /\ ~ eval.flattened
    /\ eval' = [eval EXCEPT !.flattened = TRUE,
                            !.text = as_text(Message("user", eval.content))]
    /\ UNCHANGED <<busVars, stream, reqVars, registry>>

NextContent == ConvertMessageReturns \/ AsTextReturns

SpecContent == InitContent /\ [][NextContent]_vars

\* a structured part: a mapping with a type tag or an image reference
StructuredPart(part) ==
    /\ part.t = "dict"
    /\ \E pair \in part.d : pair[1] \in {"type", "image_url", "image_base64", "image"}

\* a plain text part, and its text: a string, or a mapping that is not
\* structured and holds a string under "text"
PlainTextPart(part) ==
    \/ part.t = "str"
    \/ /\ part.t = "dict"
       /\ ~ StructuredPart(part)
       /\ \E pair \in part.d : pair[1] = "text" /\ pair[2].t = "str"
PartText(part) ==
    IF part.t = "str" THEN part.s
    ELSE (CHOOSE pair \in part.d : pair[1] = "text")[2].s

RECURSIVE JoinedWithNewlines(_)
\* the texts of a sequence of plain text parts, a newline between neighbours
JoinedWithNewlines(parts) ==
    IF parts = <<>> THEN <<>>
    ELSE IF Len(parts) = 1 THEN PartText(parts[1])
    ELSE PartText(parts[1]) \o <<"\n">> \o JoinedWithNewlines(Tail(parts))

\* C17: a content list with at least one structured part reaches the adapter
\* as the same list, same parts in the same order; a content list of plain
\* text parts only reaches it as one string, the texts joined with newlines
\* in order.
C17_ContentNormalization ==
    (eval.fn = "content" /\ eval.converted /\ eval.content.t = "list") =>
        LET parts == eval.content.items
        IN  /\ (\E i \in 1..Len(parts) : StructuredPart(parts[i])) =>
                  eval.message.content = eval.content
            /\ (\A i \in 1..Len(parts) : PlainTextPart(parts[i])) =>
                  /\ eval.message.content.t = "str"
                  /\ eval.message.content.s = JoinedWithNewlines(parts)

\* a list of a plain string and an untyped image part was kept as it is
C17_Witness ==
    /\ eval.fn = "content"
    /\ eval.converted
    /\ eval.content.t = "list"
    /\ Len(eval.content.items) = 2
    /\ eval.content.items[1].t = "str"
    /\ HasKey(eval.content.items[2], "image_base64")
    /\ eval.message.content = eval.content

\* C18 as stated: for every Message, whose content is a string, a list of
\* parts or a single part mapping, as_text returns a non-empty string
\* (non-text parts degraded to placeholder tokens).
C18_AsTextNonEmpty ==
    (eval.fn = "content" /\ eval.flattened) => eval.text # <<>>

\* ------------------------------------------- handler with the stream's opening

\* create_response together with the credential check of OpenAIProvider.stream
NextCredential == NextReq \/ StreamNotConfigured

SpecCredential == InitReq /\ [][NextCredential]_vars

\* C19: when the credential of a network-backed adapter is absent or empty,
\* its chat (OpenAI, Gemini, Claude) and OpenAI's stream fail with
\* ProviderNotConfiguredError without any upstream HTTP request, and the
\* client receives 424 provider_not_configured.
C19_NotConfigured ==
    /\ (/\ req.strategy = "synthesized"
        /\ req.adapter \in NetworkAdapters
        /\ req.adapter \notin settings.keys
        /\ req.pc # "chat") =>
           /\ req.pc = "rejected"
           /\ req.error.type = "ProviderNotConfiguredError"
           /\ req.upstream_calls = 0
           /\ req.http_error.status_code = 424
           /\ req.http_error.code = "provider_not_configured"
    /\ (/\ req.strategy = "passthrough"
        /\ "openai" \notin settings.keys
        /\ stream.pc # "call") =>
           /\ stream.pc = "finished"
           /\ stream.upstream = "none"
           /\ stream.http_error.status_code = 424
           /\ stream.http_error.code = "provider_not_configured"

\* the Claude adapter's chat was called without a key and the request rejected
C19_Witness ==
    /\ req.adapter = "claude"
    /\ req.adapter \notin settings.keys
    /\ req.pc = "rejected"
    /\ req.http_error.status_code = 424

\* C20 as stated: a chat call of a network-backed adapter that has sent its
\* request and fails, on an upstream status >= 400 or on a transport error or
\* timeout, fails with a ProviderError carrying a status; a transport failure
\* leaves the adapter as no other exception type.
C20_ChatFailsWithProviderError ==
    (/\ req.strategy = "synthesized"
     /\ req.adapter \in NetworkAdapters
     /\ req.upstream_calls > 0
     /\ req.pc = "rejected") =>
        /\ req.error.type = "ProviderError"
        /\ req.error.status_code >= 400

\* ------------------------------------------ network adapters on their own

\* headers of an upstream reply that may carry a request id, and the value a
\* header holds when it is present (each header its own value)
RequestIdHeaderNames ==
    {"x-request-id", "x-goog-request-id", "anthropic-request-id", "x-cloud-trace-context"}
HeaderValue(header) ==
    CASE header = "x-request-id" -> "req_x"
      [] header = "x-goog-request-id" -> "req_goog"
      [] header = "anthropic-request-id" -> "req_anthropic"
      [] header = "x-cloud-trace-context" -> "req_trace"

\* the headers an adapter reads for the request id, in the order of its
\* `or` chain: response.headers.get("x-request-id") alone for OpenAI,
\* _provider_request_id of gemini.py and of claude.py for the other two
HeaderOrder(adapter) ==
    CASE adapter = "openai" -> <<"x-request-id">>
      [] adapter = "gemini" ->
            <<"x-request-id", "x-goog-request-id", "x-cloud-trace-context">>
      [] adapter = "claude" ->
            <<"x-request-id", "anthropic-request-id", "x-cloud-trace-context">>

\* headers.get(a) or headers.get(b) or ...: the first header present, else None
_provider_request_id(adapter, headers) ==
    LET order == HeaderOrder(adapter)
        present == {i \in 1..Len(order) : order[i] \in headers}
    IN  IF present = {} THEN None
        ELSE HeaderValue(order[CHOOSE i \in present : \A j \in present : i <= j])

\* the outcome of an adapter call: a result or an exception
Returned(response) == [ok |-> TRUE, response |-> response, error |-> NoError]
Raised(exc) == [ok |-> FALSE, response |-> NoResponse, error |-> exc]

\* the request id a ChatResponse is built with: OpenAIProvider.chat passes
\* provider_request_id=response.headers.get("x-request-id"), the other two
\* adapters do not pass the argument
ResponseRequestId(adapter, headers) ==
    IF adapter = "openai" THEN _provider_request_id(adapter, headers) ELSE None

\* <Adapter>.chat after self._client.post returned a reply with this status,
\* these headers and a body holding this output text
ChatReply(adapter, status, headers, text) ==
    IF status >= 400
    THEN Raised(ProviderError(status, _provider_request_id(adapter, headers)))
    ELSE Returned(ChatResponse(AdapterName(adapter), text,
                               ResponseRequestId(adapter, headers)))

\* settings.default_max_tokens, and the max_tokens ClaudeProvider.chat falls
\* back to
default_max_tokens == 2048
ClaudeDefaultMaxTokens == 1024

\* reasoning hints: None, an empty dict, two non-empty dicts
NoHint == "None"
EmptyHint == "{}"
Hints == {"{'effort': 'high'}", "{'effort': 'low'}"}

\* bool(hint)
HintGiven(hint) == hint \notin {NoHint, EmptyHint}

\* routes._to_chat_request: metadata = dict(payload.metadata or {}); if
\* payload.reasoning: metadata["reasoning"] = payload.reasoning; the
\* ChatRequest gets max_tokens=payload.max_output_tokens (0 stands for None).
\* Of the metadata the "reasoning" entry is modelled (NoHint: no such key).
ToChatRequest(payload) ==
    [max_tokens |-> payload.max_output_tokens,
     metadata_reasoning |-> IF HintGiven(payload.reasoning) THEN payload.reasoning
                            ELSE payload.metadata_reasoning]

\* an OpenAI payload that leaves the reasoning hint out when streaming
OpenAIPayloadDropsReasoning(request, streaming) ==
    [url |-> "https://api.openai.com/v1/responses",
     stream |-> IF streaming THEN "true" ELSE "false",
     max_output_tokens |-> IF request.max_tokens # 0 THEN request.max_tokens
                           ELSE default_max_tokens,
     max_tokens |-> 0,
     reasoning |-> IF HintGiven(request.metadata_reasoning) /\ ~ streaming
                   THEN request.metadata_reasoning ELSE "absent"]

\* OpenAIProvider.chat and OpenAIProvider.stream: the URL and the JSON payload
\* of the upstream request. A key the payload does not have is 0 (numbers) or
\* "absent" (other values).
OpenAIPayload(request, streaming) ==
    [url |-> "https://api.openai.com/v1/responses",
     stream |-> IF streaming THEN "true" ELSE "false",
     max_output_tokens |-> IF request.max_tokens # 0 THEN request.max_tokens
                           ELSE default_max_tokens,
     max_tokens |-> 0,
     reasoning |-> IF HintGiven(request.metadata_reasoning)
                   THEN request.metadata_reasoning ELSE "absent"]

\* GeminiProvider.chat: payload = {"contents": contents}
GeminiPayload(request) ==
    [url |-> "https://generativelanguage.googleapis.com/v1beta/models",
     stream |-> "absent", max_output_tokens |-> 0, max_tokens |-> 0,
     reasoning |-> "absent"]

\* ClaudeProvider.chat: model, max_tokens or 1024, temperature, messages
ClaudePayload(request) ==
    [url |-> "https://api.anthropic.com/v1/messages",
     stream |-> "absent", max_output_tokens |-> 0,
     max_tokens |-> IF request.max_tokens # 0 THEN request.max_tokens
                    ELSE ClaudeDefaultMaxTokens,
     reasoning |-> "absent"]

\* the upstream request of an adapter's chat or (OpenAI) stream
UpstreamRequest(adapter, method, request) ==
    CASE adapter = "openai" -> OpenAIPayload(request, method = "stream")
      [] adapter = "gemini" -> GeminiPayload(request)
      [] adapter = "claude" -> ClaudePayload(request)

\* no upstream request has been sent
NoUpstreamRequest ==
    [url |-> "none", stream |-> "absent", max_output_tokens |-> 0, max_tokens |-> 0,
     reasoning |-> "absent"]

\* (adapter, method) pairs: chat of the three adapters, stream of OpenAI
AdapterCalls ==
    {<<adapter, "chat">> : adapter \in NetworkAdapters} \cup {<<"openai", "stream">>}

\* the fields of a ResponseRequest that reach the adapters' payloads
\* (max_output_tokens 0: not given)
TokenLimits == {0, 16}
AdapterPayloads ==
    [max_output_tokens : TokenLimits, reasoning : {NoHint, EmptyHint} \cup Hints,
     metadata_reasoning : {NoHint, "{'effort': 'low'}"}]

\* what the adapter makes of the upstream reply. OpenAIProvider.stream returns
\* (iterator, response.headers.get("x-request-id")), modelled as a response
\* whose output_text is still empty.
AdapterReply(adapter, method, status, headers, text) ==
    IF method = "stream"
    THEN ChatReply(adapter, status, headers, <<>>)
    ELSE ChatReply(adapter, status, headers, text)

\* one adapter call on a ChatRequest built by _to_chat_request, and the
\* upstream reply it will get
InitAdapter ==
    /\ RestIdle
    /\ \E call \in AdapterCalls, payload \in AdapterPayloads,
          status \in UpstreamStatuses, headers \in SUBSET RequestIdHeaderNames,
          text \in OutputTexts :
          eval = [fn |-> "adapter", adapter |-> call[1], method |-> call[2],
                  payload |-> payload, request |-> ToChatRequest(payload),
                  status |-> status, headers |-> headers, text |-> text,
                  pc |-> "call", posts |-> 0, upstream |-> NoUpstreamRequest,
                  outcome |-> Raised(NoError)]

\* the adapter posts its payload (self._client.post / self._client.stream)
AdapterPosts ==
    /\ eval.fn = "adapter"
    /\ eval.pc = "call"
    /\ eval' = [eval EXCEPT !.pc = "posted", !.posts = @ + 1,
                            !.upstream = UpstreamRequest(eval.adapter, eval.method, eval.request)]
    /\ UNCHANGED <<busVars, stream, reqVars, registry>>

\* the reply arrives: the adapter returns or raises
AdapterReturns ==
    /\ eval.fn = "adapter"
    /\ eval.pc = "posted"
    /\ eval' = [eval EXCEPT !.pc = "returned",
                            !.outcome = AdapterReply(eval.adapter, eval.method, eval.status,
                                                     eval.headers, eval.text)]
    /\ UNCHANGED <<busVars, stream, reqVars, registry>>

NextAdapter ==
    \/ AdapterPosts
    \/ AdapterReturns

SpecAdapter == InitAdapter /\ [][NextAdapter]_vars

\* the adapter call under evaluation has returned or raised
AdapterReturned == eval.fn = "adapter" /\ eval.pc = "returned"

\* the first header of the adapter's priority order that the reply carries
FirstPresentHeader(adapter, headers) ==
    LET order == HeaderOrder(adapter)
        present == {i \in 1..Len(order) : order[i] \in headers}
    IN  IF present = {} THEN None
        ELSE HeaderValue(order[CHOOSE i \in present : \A j \in present : i <= j])

\* C21: for each network adapter, the first request-id header present in the
\* adapter's priority order is ChatResponse.provider_request_id on success and
\* ProviderError.provider_request_id on a status >= 400; with no such header
\* the value is None and the outcome is otherwise the same.
C21_RequestIdPropagated ==
    AdapterReturned =>
        LET id == FirstPresentHeader(eval.adapter, eval.headers)
        IN  IF eval.status >= 400
            THEN /\ ~ eval.outcome.ok
                 /\ eval.outcome.error = ProviderError(eval.status, id)
            ELSE /\ eval.outcome.ok
                 /\ eval.outcome.response.provider_request_id = id
                 /\ eval.outcome.response.output_text
                        = (IF eval.method = "stream" THEN <<>> ELSE eval.text)

\* ----------------------------------- POST /v1/responses from body to stream

\* the "stream" member of the request's JSON body: left out, null, true, false
StreamFields == {"omitted", "null", "true", "false"}

\* a validator that lets stream=false through as it is
RequireStreamingLenient(value) ==
    [ok |-> TRUE, stream |-> value # "false"]

\* ResponseRequest: stream: bool | None = Field(default=True), and
\* _require_streaming: if value is False: raise ValueError(...); return True.
\* The default is taken without running the validator.
_require_streaming(value) ==
    IF value = "omitted" THEN [ok |-> TRUE, stream |-> TRUE]
    ELSE IF value = "false" THEN [ok |-> FALSE, stream |-> FALSE]
    ELSE [ok |-> TRUE, stream |-> TRUE]

\* FastAPI's answer to a body that fails validation: 422, the handler is not called
RequestValidationError == HTTPException(422, "validation_error", NoneStr, 0, None)

\* a request body as it arrives, before FastAPI has validated it
Received(model, input, raw_body, stream_field) ==
    [Request(model, input, raw_body) EXCEPT !.pc = "received"]
        @@ [stream_field |-> stream_field,   \* "stream" in the JSON body
            stream |-> FALSE]                \* payload.stream once validated

\* one user message, a body at the ceiling
GatewayInputs == {<<Message("user", PyStr(<<"a", "b", "c">>))>>}

InitGateway ==
    /\ BusEmpty
    /\ max_messages = DefaultMaxMessages
    /\ stream = NoStream
    /\ UnitIdle
    /\ \E d \in DefaultProviders, k \in KeySets :
           settings = [default_provider |-> d, keys |-> k]
    /\ MAX_INPUT_TOKENS = DefaultMaxInputTokens
    /\ \E m \in ModelIds, i \in GatewayInputs, f \in StreamFields :
           req = Received(m, i, MAX_REQUEST_BYTES, f)

\* FastAPI builds payload: ResponseRequest from the body and calls
\* create_response, or answers 422
Validate ==
    /\ req.pc = "received"
    /\ LET validated == _require_streaming(req.stream_field)
       IN  req' = IF validated.ok
                  THEN [req EXCEPT !.pc = "handler", !.stream = validated.stream]
                  ELSE [req EXCEPT !.pc = "invalid", !.http_error = RequestValidationError]
    /\ UNCHANGED <<busVars, stream, settings, MAX_INPUT_TOKENS, unitVars>>

NextGateway ==
    \/ Validate
    \/ NextReq
    \/ NextStream

SpecGateway == InitGateway /\ [][NextGateway]_vars

\* HTTP requests the gateway has sent upstream for the client request, by the
\* adapters' chat (self._client.post) and by OpenAIProvider.stream
UpstreamRequests ==
    req.upstream_calls + (IF stream.pc = "none" THEN 0 ELSE stream.requests)

\* C22: on the synthesized and on the passthrough path at most one upstream
\* HTTP request is sent for a client request; once an upstream request has
\* failed the request is over (no second attempt) and the client gets the
\* failure: the mapped error and no event when the chat call or the opening of
\* the stream failed, the stream ended by the error when the upstream body
\* failed after it had begun.
C22_SingleUpstreamAttempt ==
    /\ UpstreamRequests <= 1
    /\ (req.upstream_calls = 1 /\ req.error # NoError) =>
          /\ req.pc = "rejected"
          /\ req.http_error = map_exception(req.error, req.provider_name)
          /\ req.events = <<>>
    /\ (stream.pc # "none" /\ stream.requests = 1 /\ stream.http_error # NoHTTPException) =>
          /\ stream.pc = "finished"
          /\ stream.outcome = "rejected"
          /\ stream.emitted = <<>>
    /\ (stream.pc # "none" /\ stream.error.type \in {TransportError(TRUE).type, TransportError(FALSE).type}) =>
          /\ stream.pc = "finished"
          /\ stream.outcome = "failed"
          /\ stream.requests = 1

\* C22 witness: the one upstream request of a synthesized request failed and
\* the client was answered with the mapped error
C22_Witness ==
    /\ req.strategy = "synthesized"
    /\ req.upstream_calls = 1
    /\ req.error # NoError
    /\ req.pc = "rejected"
    /\ req.http_error.status_code \in {429, 500, 502}

\* C23: a request whose body has stream=false is answered with a validation
\* error (422) and create_response never runs for it: no guard, no provider
\* resolution, no adapter call; a request with stream left out, null or true
\* is validated with payload.stream = True and handed to create_response.
C23_StreamFalseRejected ==
    /\ req.stream_field = "false" =>
          /\ req.pc \in {"received", "invalid"}
          /\ req.bytes_in = 0
          /\ req.provider_name = NoneStr
          /\ req.strategy = "none"
          /\ NoAdapterInvoked
          /\ req.pc = "invalid" => req.http_error = RequestValidationError
    /\ (req.stream_field # "false" /\ req.pc # "received") =>
          /\ req.pc # "invalid"
          /\ req.stream = TRUE
          /\ req.http_error.status_code # 422

\* C23 witness: a body with stream=false was answered 422
C23_Witness ==
    /\ req.stream_field = "false"
    /\ req.pc = "invalid"
    /\ req.http_error.status_code = 422

\* the adapter under evaluation is OpenAI's and has sent its upstream request
OpenAIPosted(method) ==
    /\ eval.fn = "adapter"
    /\ eval.adapter = "openai"
    /\ eval.method = method
    /\ eval.pc \in {"posted", "returned"}

\* C24: when the ChatRequest has no max_tokens, the payload OpenAIProvider.stream
\* sends has no max_output_tokens key; the request goes to the Responses URL
\* and the x-request-id header of the reply is returned as the provider
\* request id.
C24_StreamDoesNotForceMaxTokens ==
    (OpenAIPosted("stream") /\ eval.request.max_tokens = 0) =>
        /\ eval.upstream.max_output_tokens = 0
        /\ eval.upstream.url = "https://api.openai.com/v1/responses"
        /\ (eval.pc = "returned" /\ eval.status < 400) =>
              eval.outcome.response.provider_request_id
                  = (IF "x-request-id" \in eval.headers THEN HeaderValue("x-request-id") ELSE None)

\* the reasoning hint the request supplies: the body's reasoning member, or
\* without one the reasoning entry of its metadata; an empty mapping is no hint
SuppliedHint ==
    IF HintGiven(eval.payload.reasoning) THEN eval.payload.reasoning
    ELSE IF HintGiven(eval.payload.metadata_reasoning) THEN eval.payload.metadata_reasoning
    ELSE NoHint

\* C25: on OpenAI's chat and stream paths the upstream payload carries the
\* request's reasoning hint unchanged under the key reasoning, and has no
\* reasoning key when the request supplies no hint.
C25_ReasoningForwarded ==
    \A method \in {"chat", "stream"} :
        OpenAIPosted(method) =>
            eval.upstream.reasoning = (IF SuppliedHint = NoHint THEN "absent" ELSE SuppliedHint)

\* C25 witness: a stream request with a reasoning hint was sent with it
C25_Witness ==
    /\ OpenAIPosted("stream")
    /\ eval.payload.reasoning \in Hints
    /\ eval.upstream.reasoning = eval.payload.reasoning

\* ------------------------------------------------- the Gemini translation

\* str.startswith
StartsWith(text, prefix) ==
    Len(text) >= Len(prefix) /\ SubSeq(text, 1, Len(prefix)) = prefix

\* text.split(sep, 1) for a text that contains sep
SplitAt(text, sep) ==
    LET at == CHOOSE i \in 1..Len(text) :
                  /\ SubSeq(text, i, i + Len(sep) - 1) = sep
                  /\ \A j \in 1..(i - 1) : SubSeq(text, j, j + Len(sep) - 1) # sep
    IN  <<SubSeq(text, 1, at - 1), SubSeq(text, at + Len(sep), Len(text))>>

\* the parts _chunk_to_part returns: {"text": ...} and {"inline_data":
\* {"mime_type": ..., "data": ...}}; and the AttributeError it may raise
TextPart(chars) ==
    [kind |-> "text", text |-> chars, mime_type |-> <<>>, data |-> PyStr(<<>>)]
InlineData(mime_type, data) ==
    [kind |-> "inline_data", text |-> <<>>, mime_type |-> mime_type, data |-> data]
AttributeError ==
    [kind |-> "AttributeError", text |-> <<>>, mime_type |-> <<>>, data |-> PyStr(<<>>)]

ImagePng == <<"i", "m", "a", "g", "e", "/", "p", "n", "g">>
InputText == PyStr(<<"i", "n", "p", "u", "t", "_", "t", "e", "x", "t">>)
InputImage == PyStr(<<"i", "n", "p", "u", "t", "_", "i", "m", "a", "g", "e">>)

\* gemini._message_to_gemini._chunk_to_part
_chunk_to_part(chunk, message) ==
    IF chunk.t = "str" THEN TextPart(chunk.s)
    ELSE IF chunk.t # "dict" THEN TextPart(as_text(message))
    ELSE IF HasKey(chunk, "type") /\ Get(chunk, "type") = InputText /\ HasKey(chunk, "text")
    THEN TextPart(Str(Get(chunk, "text")))
    ELSE LET image == HasKey(chunk, "type") /\ Get(chunk, "type") = InputImage
             \* data_url = chunk.get("image_url") or ""
             data_url == IF HasKey(chunk, "image_url") /\ Truthy(Get(chunk, "image_url"))
                         THEN Get(chunk, "image_url") ELSE PyStr(<<>>)
         IN  IF image /\ data_url.t # "str"
             THEN AttributeError        \* data_url.startswith on a dict or a list
             ELSE IF /\ image
                     /\ StartsWith(data_url.s, <<"d", "a", "t", "a", ":">>)
                     /\ Contains(data_url.s, <<";", "b", "a", "s", "e", "6", "4", ",">>)
             THEN LET split == SplitAt(data_url.s, <<";", "b", "a", "s", "e", "6", "4", ",">>)
                  IN  InlineData(SplitOnce(split[1])[2], PyStr(split[2]))
             ELSE IF HasKey(chunk, "image_base64")
             THEN InlineData(ImagePng, Get(chunk, "image_base64"))
             ELSE IF HasKey(chunk, "text")
             THEN TextPart(Str(Get(chunk, "text")))
             ELSE TextPart(as_text(message))

\* gemini._message_to_gemini: {"role": role, "parts": parts}, or the exception
\* that leaves it
_message_to_gemini(message) ==
    LET content == message.content
        parts == IF content.t = "list"
                 THEN [i \in 1..Len(content.items) |-> _chunk_to_part(content.items[i], message)]
                 ELSE IF content.t = "dict"
                 THEN <<_chunk_to_part(content, message)>>
                 ELSE <<TextPart(as_text(message))>>
    IN  IF \E i \in 1..Len(parts) : parts[i] = AttributeError
        THEN [ok |-> FALSE, role |-> "none", parts |-> <<>>, error |-> "AttributeError"]
        ELSE [ok |-> TRUE, role |-> IF message.role = "user" THEN "user" ELSE "model",
              parts |-> parts, error |-> "none"]

\* image parts with a base64 data URL and with another URL, a typed text
\* part without its text
GeminiParts ==
    Parts \cup
    {PyDict([type |-> InputImage,
             image_url |-> PyStr(<<"d", "a", "t", "a", ":", "i", ";", "b", "a", "s", "e", "6", "4", ",", "Z">>)]),
     PyDict([type |-> InputImage, image_url |-> PyStr(<<"u">>)]),
     PyDict([type |-> InputText])}

GeminiContents ==
    GeminiParts \cup {PyList(items) : items \in UNION {[1..n -> GeminiParts] : n \in 0..MaxParts}}

\* a request message on its way to GeminiProvider.chat
InitGemini ==
    /\ RestIdle
    /\ \E content \in GeminiContents :
          eval = [fn |-> "gemini", pc |-> "request", content |-> content,
                  message |-> Message("user", PyStr(<<>>)),
                  outcome |-> [ok |-> FALSE, role |-> "none", parts |-> <<>>, error |-> "none"]]

\* _to_chat_request: messages = [_convert_message(entry) for entry in payload.input]
GeminiConvertMessage ==
    /\ eval.fn = "gemini"
    /\ eval.pc = "request"
    /\ eval' = [eval EXCEPT !.pc = "converted",
                            !.message = _convert_message(Message("user", eval.content))]
    /\ UNCHANGED <<busVars, stream, reqVars, registry>>

\* GeminiProvider.chat: contents = [_message_to_gemini(msg) for msg in request.messages]
MessageToGeminiReturns ==
    /\ eval.fn = "gemini"
    /\ eval.pc = "converted"
    /\ eval' = [eval EXCEPT !.pc = "translated",
                            !.outcome = _message_to_gemini(eval.message)]
    /\ UNCHANGED <<busVars, stream, reqVars, registry>>

NextGemini == GeminiConvertMessage \/ MessageToGeminiReturns

SpecGemini == InitGemini /\ [][NextGemini]_vars

\* C26: the translation of a message to Gemini's format never fails, and for a
\* content list it yields one upstream part per content part in the same
\* order: a string as its text, a raw base64 image as inline data, every
\* other part as a text part or inline data.
C26_GeminiTranslationTotal ==
    (eval.fn = "gemini" /\ eval.pc = "translated") =>
        /\ eval.outcome.ok
        /\ eval.message.content.t = "list" =>
              LET items == eval.message.content.items
                  parts == eval.outcome.parts
              IN  /\ Len(parts) = Len(items)
                  /\ \A i \in 1..Len(items) :
                        /\ parts[i].kind \in {"text", "inline_data"}
                        /\ items[i].t = "str" => parts[i] = TextPart(items[i].s)
                        /\ (HasKey(items[i], "image_base64") /\ ~ HasKey(items[i], "type")) =>
                              parts[i] = InlineData(ImagePng, Get(items[i], "image_base64"))

\* ------------------------------------------------------- mailbox key set

\* the key a drain request names
ConsumeKey(c) == _queue_key(calls[c].agent_id, calls[c].conversation_id)

\* C27: the set of mailbox keys only grows and only a publish adds a key; a
\* consume on a key nobody published to returns [] and creates no key; a
\* consume on an existing key leaves its queue empty and the key in place.
C27_KeysOnlyGrow ==
    [][/\ DOMAIN queues \subseteq DOMAIN queues'
       /\ DOMAIN queues' # DOMAIN queues => \E c \in Clients : PublishStep(c)
       /\ \A c \in Clients :
             ConsumeStep(c) =>
                 /\ DOMAIN queues' = DOMAIN queues
                 /\ ConsumeKey(c) \notin DOMAIN queues => calls'[c].result = <<>>
                 /\ ConsumeKey(c) \in DOMAIN queues => queues'[ConsumeKey(c)] = <<>>]_vars

\* C27 witness: after a publish to one key, a consume on another key that was
\* never published to has returned [] and that key does not exist
C27_Witness ==
    \E c \in Clients :
        /\ ConsumeDone(c)
        /\ DOMAIN queues # {}
        /\ ConsumeKey(c) \notin DOMAIN queues
        /\ calls[c].result = <<>>

\* ------------------------------------------------- passthrough fidelity

\* a is a prefix of b
IsPrefix(a, b) == Len(a) <= Len(b) /\ SubSeq(b, 1, Len(a)) = a

\* C28: in the passthrough strategy the chunks emitted to the client are at
\* every moment a prefix of the non-empty chunks received from upstream (same
\* order, same bytes), and when the upstream body ends normally within the
\* budget they are all of them.
C28_EmittedIsPrefix ==
    stream.pc # "none" =>
        /\ IsPrefix(stream.emitted, NonEmpty(stream.received))
        /\ stream.outcome = "complete" => stream.emitted = NonEmpty(stream.received)

\* C28 witness: the upstream sent an empty chunk and a non-empty one and
\* ended; the client got the non-empty one
C28_Witness ==
    /\ stream.pc = "finished"
    /\ stream.outcome = "complete"
    /\ \E i \in 1..Len(stream.received) : stream.received[i] = <<>>
    /\ stream.emitted # <<>>
    /\ stream.emitted = NonEmpty(stream.received)

\* ------------------------------------------------ synthesized atomicity

\* C29: in the synthesized strategy no SSE event is sent before the adapter's
\* chat call has returned; when the call fails the client gets the mapped
\* HTTP error and no event at all; when it succeeds the delta event and the
\* completed event both carry the adapter's whole output_text.
C29_NoEventBeforeChatReturns ==
    req.strategy = "synthesized" =>
        /\ req.pc \in {"chat", "upstream"} => req.events = <<>>
        /\ req.error # NoError =>
              /\ req.pc = "rejected"
              /\ req.http_error = map_exception(req.error, req.provider_name)
              /\ req.http_error.status_code \in {424, 429, 500, 502}
              /\ req.events = <<>>
        /\ req.events # <<>> => req.response # NoResponse /\ req.error = NoError
        /\ \A i \in 1..Len(req.events) :
              req.events[i].event \in {"response.output_text.delta", "response.completed"} =>
                  req.events[i].data.output_text = <<req.response.output_text>>

\* C29 witness: a network adapter returned "ok" and both the delta and the
\* completed event carried it
C29_Witness ==
    /\ req.strategy = "synthesized"
    /\ req.response.output_text = <<"o", "k">>
    /\ Len(req.events) = 3
    /\ req.events[2].data.output_text = <<<<"o", "k">>>>
    /\ req.events[3].data.output_text = <<<<"o", "k">>>>

\* -------------------------------------------------- strategy selection

\* C30: a request that reaches the choice of strategy is served by the
\* passthrough strategy exactly when the adapter the registry resolves for
\* its provider name (the prefix of the model identifier or, without one, the
\* default provider, in any letter case) is the OpenAI adapter; every other
\* request is served by the synthesized strategy.
C30_StrategyFollowsResolution ==
    req.strategy # "none" =>
        /\ req.strategy \in {"passthrough", "synthesized"}
        /\ req.strategy = "passthrough" <=> RegistryGet(ChatProviderName) = "openai"

====
